---- MODULE Spec2Model ----
(***************************************************************************)
(* A model of the synthesis orchestration pipeline of forge-of-thought:    *)
(* SynthesisCore (_analyze_graph, _identify_communities, _plan_ki_queries, *)
(* _execute_ki_queries, _construct_llm_prompt, synthesize,                 *)
(* _parse_llm_output) and LineageMapper.trace_lineage.                     *)
(*                                                                         *)
(* Strings of the program are TLA+ strings.  Python lists are sequences,   *)
(* dictionaries are the lists of their items in the order of insertion,    *)
(* None is the value NoValue.                                              *)
(***************************************************************************)
EXTENDS Integers, Sequences, FiniteSets, TLC

VARIABLES
    pc,             \* position of the request in the code
    graph,          \* GraphStructure: [nodes, edges]
    vector_present, \* SynthesisCore.vector_interface is not None
    communities,    \* _identify_communities: the list of communities
    merged,         \* _identify_communities: the loop flag
    passes,         \* number of iterations of the while loop so far
    analysis,       \* GraphAnalysis
    query_plan,     \* KIQueryPlan
    ki_context,     \* KIContext
    idx,            \* index of the next entry of the list being executed
    calls,          \* collaborator calls issued so far, in order
    raised,         \* an exception left the function being executed
    logged_errors,  \* number of logger.error records written so far
    prompt,         \* the compiled prompt, by section
    synthesis_text, \* what agenerate_text returned
    result,         \* what synthesize returned: [output, error]
    lineage,        \* state of LineageMapper.trace_lineage
    response,       \* what the synthesis endpoint answered
    other           \* the frame of a second request that is suspended at an await

vars == <<pc, graph, vector_present, communities, merged, passes, analysis,
          query_plan, ki_context, idx, calls, raised, logged_errors, prompt, synthesis_text,
          result, lineage, response, other>>

----------------------------------------------------------------------------
(* Bounds of the model *)

MaxNodes == 4
MaxEdges == 2
MaxLookups == 3
MaxRequestEdges == 1
MaxParents == 2
MaxPlanEdges == 2
MaxMotifEdges == 3

----------------------------------------------------------------------------
(* Generic helpers *)

NoValue == "None"

Range(s) == {s[i] : i \in 1..Len(s)}

SeqsUpTo(S, n) == UNION {[1..k -> S] : k \in 0..n}

RECURSIVE MapFilter(_, _, _)
\* [f[x] for x in s if x in keep]
MapFilter(s, keep, f) ==
    IF s = <<>> THEN <<>>
    ELSE (IF s[1] \in keep THEN <<f[s[1]]>> ELSE <<>>) \o MapFilter(Tail(s), keep, f)

Min(a, b) == IF a < b THEN a ELSE b

RECURSIVE SelectSeqIdx(_, _, _)
\* the subsequence of s of the elements at the positions in P, in order
SelectSeqIdx(s, P, i) ==
    IF i > Len(s) THEN <<>>
    ELSE (IF i \in P THEN <<s[i]>> ELSE <<>>) \o SelectSeqIdx(s, P, i + 1)

----------------------------------------------------------------------------
(* ki_ontology.py *)

SemanticEdgeType ==
    {"SYNTHESIZES_WITH", "RESONATES_WITH", "IS_ANALOGOUS_TO", "IS_METAPHOR_FOR",
     "ILLUSTRATES", "DEFINES", "OPPOSES", "CONTRADICTS_CLAIM",
     "CHALLENGES_PREMISE_OF", "REFUTES", "LIMITS", "GENERATES_PARADOX_FROM",
     "RESOLVES_TENSION_BETWEEN", "ENABLES", "CAUSES", "INFLUENCES", "AMPLIFIES",
     "REDUCES_TO", "DERIVES_FROM", "IS_COMPONENT_OF", "IS_AXIOM_FOR",
     "SYMBOLIZES", "RELATED_TO"}

TENSION_EDGE_TYPES ==
    {"CONTRADICTS_CLAIM", "OPPOSES", "REFUTES", "GENERATES_PARADOX_FROM",
     "CHALLENGES_PREMISE_OF"}

SYNTHESIS_EDGE_TYPES ==
    {"SYNTHESIZES_WITH", "RESOLVES_TENSION_BETWEEN", "RESONATES_WITH"}

ANALOGY_EDGE_TYPES == {"IS_METAPHOR_FOR", "IS_ANALOGOUS_TO", "SYMBOLIZES"}

FRAMEWORK_EDGE_TYPES == {"IS_COMPONENT_OF", "IS_AXIOM_FOR", "DERIVES_FROM"}

CAUSAL_EDGE_TYPES == {"ENABLES", "CAUSES", "INFLUENCES", "AMPLIFIES"}

PRIORITY_EDGE_TYPES ==
    TENSION_EDGE_TYPES \cup SYNTHESIS_EDGE_TYPES \cup ANALOGY_EDGE_TYPES
        \cup FRAMEWORK_EDGE_TYPES \cup CAUSAL_EDGE_TYPES

----------------------------------------------------------------------------
(* data_models.py: NodeData, EdgeData, GraphStructure *)

NodeData(id, ki_id, label) ==
    [id |-> id, ki_id |-> ki_id, label |-> label, type |-> "CONCEPT"]

EdgeData(id, source, target, semantic_type) ==
    [id |-> id, source |-> source, target |-> target,
     semantic_type |-> semantic_type]

GraphStructure(nodes, edges) == [nodes |-> nodes, edges |-> edges]

NodeIds(g) == {g.nodes[i].id : i \in 1..Len(g.nodes)}

----------------------------------------------------------------------------
(* SynthesisCore._identify_communities *)

\* communities = [[node.id] for node in graph.nodes]
InitialCommunities(g) == [i \in 1..Len(g.nodes) |-> <<g.nodes[i].id>>]

\* ShareEdge as it would be if edges joined communities in one direction only
ShareEdge_OneWay(g, ci, cj) ==
    \E k \in 1..Len(g.edges) :
        g.edges[k].source \in Range(ci) /\ g.edges[k].target \in Range(cj)

\* the test of the innermost loop: some edge joins community ci and community cj
ShareEdge(g, ci, cj) ==
    \E k \in 1..Len(g.edges) :
        \/ g.edges[k].source \in Range(ci) /\ g.edges[k].target \in Range(cj)
        \/ g.edges[k].source \in Range(cj) /\ g.edges[k].target \in Range(ci)

\* the pairs (i, j), i < j, the two nested loops would merge
MergeablePairs(g, comms) ==
    {p \in (1..Len(comms)) \X (1..Len(comms)) :
        p[1] < p[2] /\ ShareEdge(g, comms[p[1]], comms[p[2]])}

\* the first such pair in the order the loops visit them
FirstMergeablePair(g, comms) ==
    CHOOSE p \in MergeablePairs(g, comms) :
        \A q \in MergeablePairs(g, comms) :
            p[1] < q[1] \/ (p[1] = q[1] /\ p[2] <= q[2])

\* MergeInto as it would be without communities.pop(j)
MergeInto_NoPop(comms, i, j) ==
    [k \in 1..Len(comms) |-> IF k = i THEN comms[i] \o comms[j] ELSE comms[k]]

\* communities[i].extend(communities[j]); communities.pop(j)
MergeInto(comms, i, j) ==
    [k \in 1..(Len(comms) - 1) |->
        IF k = i THEN comms[i] \o comms[j]
        ELSE IF k < j THEN comms[k] ELSE comms[k + 1]]

\* one iteration of the while loop: the communities and the flag it leaves
CommunityScan(g, comms) ==
    IF MergeablePairs(g, comms) = {}
    THEN [communities |-> comms, merged |-> FALSE]
    ELSE LET p == FirstMergeablePair(g, comms)
         IN  [communities |-> MergeInto(comms, p[1], p[2]), merged |-> TRUE]

RECURSIVE CommunityLoop(_, _, _)
\* while merged and len(communities) > 1
CommunityLoop(g, comms, flag) ==
    IF flag /\ Len(comms) > 1
    THEN LET r == CommunityScan(g, comms)
         IN  CommunityLoop(g, r.communities, r.merged)
    ELSE comms

\* _identify_communities as a whole: the communities it returns
IdentifyCommunities(g) == CommunityLoop(g, InitialCommunities(g), TRUE)

----------------------------------------------------------------------------
(* SynthesisCore._analyze_graph *)

\* node_degrees after the edge loop: only identifiers of nodes are counted
NodeDegree(g, id) ==
    Cardinality({k \in 1..Len(g.edges) : g.edges[k].source = id})
        + Cardinality({k \in 1..Len(g.edges) : g.edges[k].target = id})

\* edge_types: Counter of the semantic types
EdgeTypeCount(g, t) ==
    Cardinality({k \in 1..Len(g.edges) : g.edges[k].semantic_type = t})

RECURSIVE SumOver(_, _)
SumOver(S, f) ==
    IF S = {} THEN 0
    ELSE LET x == CHOOSE y \in S : TRUE IN f[x] + SumOver(S \ {x}, f)

EdgesOfTypes(g, T) ==
    SelectSeqIdx(g.edges, {k \in 1..Len(g.edges) : g.edges[k].semantic_type \in T}, 1)

KeySemanticEdges(g) == EdgesOfTypes(g, PRIORITY_EDGE_TYPES)

\* the if / elif / elif of the edge loop
TensionEdges(g) == EdgesOfTypes(g, PRIORITY_EDGE_TYPES \cap TENSION_EDGE_TYPES)

SynthesisEdges(g) ==
    EdgesOfTypes(g, (PRIORITY_EDGE_TYPES \cap SYNTHESIS_EDGE_TYPES) \ TENSION_EDGE_TYPES)

AnalogyEdges(g) ==
    EdgesOfTypes(g, (PRIORITY_EDGE_TYPES \cap ANALOGY_EDGE_TYPES)
                        \ (TENSION_EDGE_TYPES \cup SYNTHESIS_EDGE_TYPES))

\* the keys of category_counts, in the order of the dict literal
IntentCategories ==
    <<"dialectical_synthesis", "integrative_synthesis", "analogical_reasoning",
      "framework_building", "causal_analysis">>

\* CategoryCounts as it would be if the framework count summed every
\* prioritized type
CategoryCounts_AllPriority(g) ==
    [c \in Range(IntentCategories) |->
        CASE c = "dialectical_synthesis" -> Len(TensionEdges(g))
          [] c = "integrative_synthesis" -> Len(SynthesisEdges(g))
          [] c = "analogical_reasoning" -> Len(AnalogyEdges(g))
          [] c = "framework_building" ->
                SumOver(PRIORITY_EDGE_TYPES, [t \in SemanticEdgeType |-> EdgeTypeCount(g, t)])
          [] c = "causal_analysis" ->
                SumOver(CAUSAL_EDGE_TYPES, [t \in SemanticEdgeType |-> EdgeTypeCount(g, t)])]

CategoryCounts(g) ==
    [c \in Range(IntentCategories) |->
        CASE c = "dialectical_synthesis" -> Len(TensionEdges(g))
          [] c = "integrative_synthesis" -> Len(SynthesisEdges(g))
          [] c = "analogical_reasoning" -> Len(AnalogyEdges(g))
          [] c = "framework_building" ->
                SumOver(FRAMEWORK_EDGE_TYPES, [t \in SemanticEdgeType |-> EdgeTypeCount(g, t)])
          [] c = "causal_analysis" ->
                SumOver(CAUSAL_EDGE_TYPES, [t \in SemanticEdgeType |-> EdgeTypeCount(g, t)])]

\* InferredIntent as it would be if the last key of the highest count won
InferredIntent_LastMax(g) ==
    LET counts == CategoryCounts(g)
    IN  IF \A c \in Range(IntentCategories) : counts[c] = 0
        THEN "exploration"
        ELSE LET i == CHOOSE i \in 1..Len(IntentCategories) :
                        /\ \A j \in 1..Len(IntentCategories) :
                                counts[IntentCategories[j]] <= counts[IntentCategories[i]]
                        /\ \A j \in (i + 1)..Len(IntentCategories) :
                                counts[IntentCategories[j]] < counts[IntentCategories[i]]
             IN  IntentCategories[i]

\* max(category_counts.items(), key=count): the first key of the highest count
InferredIntent(g) ==
    LET counts == CategoryCounts(g)
    IN  IF \A c \in Range(IntentCategories) : counts[c] = 0
        THEN "exploration"
        ELSE LET i == CHOOSE i \in 1..Len(IntentCategories) :
                        /\ \A j \in 1..Len(IntentCategories) :
                                counts[IntentCategories[j]] <= counts[IntentCategories[i]]
                        /\ \A j \in 1..(i - 1) :
                                counts[IntentCategories[j]] < counts[IntentCategories[i]]
             IN  IntentCategories[i]

\* InsertByDegree as it would be if the sort put the later of two items of
\* equal degree first
RECURSIVE InsertByDegree_TiesReversed(_, _)
InsertByDegree_TiesReversed(sorted, item) ==
    IF sorted = <<>> THEN <<item>>
    ELSE IF sorted[1][2] > item[2]
         THEN <<sorted[1]>> \o InsertByDegree_TiesReversed(Tail(sorted), item)
         ELSE <<item>> \o sorted

\* sorted(node_degrees.items(), key=degree, reverse=True): a stable sort, the
\* items in the order of graph.nodes
RECURSIVE InsertByDegree(_, _)
InsertByDegree(sorted, item) ==
    IF sorted = <<>> THEN <<item>>
    ELSE IF sorted[1][2] >= item[2]
         THEN <<sorted[1]>> \o InsertByDegree(Tail(sorted), item)
         ELSE <<item>> \o sorted

RECURSIVE SortedByDegree(_, _)
SortedByDegree(items, n) ==
    IF n = 0 THEN <<>>
    ELSE InsertByDegree(SortedByDegree(items, n - 1), items[n])

\* identifier = node_data.ki_id if node_data and node_data.ki_id else node_id
CentralIdentifier(g, id) ==
    LET n == CHOOSE n \in Range(g.nodes) : n.id = id
    IN  IF n.ki_id # NoValue THEN n.ki_id ELSE id

\* CentralNodes as it would be without the cap of three
CentralNodes_NoCap(g) ==
    LET items == [i \in 1..Len(g.nodes) |->
                    <<g.nodes[i].id, NodeDegree(g, g.nodes[i].id)>>]
        central_nodes_sorted == SortedByDegree(items, Len(items))
    IN  [i \in 1..Len(g.nodes) |->
            <<CentralIdentifier(g, central_nodes_sorted[i][1]), central_nodes_sorted[i][2]>>]

CentralNodes(g) ==
    LET items == [i \in 1..Len(g.nodes) |->
                    <<g.nodes[i].id, NodeDegree(g, g.nodes[i].id)>>]
        central_nodes_sorted == SortedByDegree(items, Len(items))
        top_n == Min(3, Len(g.nodes))
    IN  [i \in 1..top_n |->
            <<CentralIdentifier(g, central_nodes_sorted[i][1]), central_nodes_sorted[i][2]>>]

(* SynthesisCore._detect_graph_patterns *)

RECURSIVE Concat(_)
\* the lists of a list, one after the other
Concat(lists) == IF lists = <<>> THEN <<>> ELSE Head(lists) \o Concat(Tail(lists))

\* the keys of adjacency_list: the sources of the edges, in the order of
\* their first edge
AdjacencyKeys(g) ==
    LET first == {k \in 1..Len(g.edges) :
                    \A j \in 1..(k - 1) : g.edges[j].source # g.edges[k].source}
        kept == SelectSeqIdx(g.edges, first, 1)
    IN  [i \in 1..Len(kept) |-> kept[i].source]

\* adjacency_list.get(id, []): the edges that leave id, in input order, each
\* standing for its (target, semantic_type) pair
AdjacencyList(g, id) == SelectSeq(g.edges, LAMBDA e : e.source = id)

\* edge_set = {(e.source, e.target, e.semantic_type) for e in graph.edges}
EdgeSet(g) ==
    {<<g.edges[k].source, g.edges[k].target, g.edges[k].semantic_type>> :
        k \in 1..Len(g.edges)}

Pattern(type, nodes, description) ==
    [type |-> type, nodes |-> nodes, description |-> description]

\* ChainsOver as it would be without the look-up of the closing edge
ChainsOver_OpenOnly(g, ab) ==
    LET from_b == AdjacencyList(g, ab.target)
    IN  MapFilter(from_b,
                  {bc \in Range(from_b) : bc.target # ab.source},
                  [bc \in Range(from_b) |->
                      Pattern("chain", <<ab.source, ab.target, bc.target>>,
                              <<ab.source, ab.semantic_type, ab.target,
                                bc.semantic_type, bc.target>>)])

\* the innermost loop of _detect_chains, for one edge node_a -> node_b
ChainsOver(g, ab) ==
    LET from_b == AdjacencyList(g, ab.target)
    IN  MapFilter(from_b,
                  {bc \in Range(from_b) :
                        /\ bc.target # ab.source
                        /\ <<bc.target, ab.source, bc.semantic_type>> \notin EdgeSet(g)},
                  [bc \in Range(from_b) |->
                      Pattern("chain", <<ab.source, ab.target, bc.target>>,
                              <<ab.source, ab.semantic_type, ab.target,
                                bc.semantic_type, bc.target>>)])

DetectChains(g) ==
    LET keys == AdjacencyKeys(g)
    IN  Concat([k \in 1..Len(keys) |->
            Concat([i \in 1..Len(AdjacencyList(g, keys[k])) |->
                ChainsOver(g, AdjacencyList(g, keys[k])[i])])])

\* the tension_types of _detect_dialectical_pairs
tension_types == {"CONTRADICTS_CLAIM", "OPPOSES", "REFUTES", "CHALLENGES_PREMISE_OF"}

DetectDialecticalPairs(g) ==
    MapFilter(g.edges,
              {e \in Range(g.edges) : e.semantic_type \in tension_types},
              [e \in Range(g.edges) |->
                  Pattern("dialectical_pair", <<e.source, e.target>>,
                          <<e.source, e.semantic_type, e.target>>)])

\* the synthesis_types of _detect_synthesis_triangles
synthesis_types == {"SYNTHESIZES_WITH", "RESOLVES_TENSION_BETWEEN"}

\* the keys of synthesis_targets: the targets of the synthesis edges, in the
\* order of their first edge
SynthesisTargetKeys(g) ==
    LET edges == SelectSeq(g.edges, LAMBDA e : e.semantic_type \in synthesis_types)
        first == {k \in 1..Len(edges) :
                    \A j \in 1..(k - 1) : edges[j].target # edges[k].target}
        kept == SelectSeqIdx(edges, first, 1)
    IN  [i \in 1..Len(kept) |-> kept[i].target]

\* synthesis_targets[target]: the sources of the synthesis edges that reach it
SynthesisSources(g, target) ==
    LET edges == SelectSeq(g.edges, LAMBDA e : /\ e.semantic_type \in synthesis_types
                                               /\ e.target = target)
    IN  [i \in 1..Len(edges) |-> edges[i].source]

DetectSynthesisTriangles(g) ==
    LET keys == SynthesisTargetKeys(g)
    IN  Concat([k \in 1..Len(keys) |->
            IF Len(SynthesisSources(g, keys[k])) >= 2
            THEN <<Pattern("synthesis_triangle",
                           SynthesisSources(g, keys[k]) \o <<keys[k]>>,
                           <<SynthesisSources(g, keys[k]), keys[k]>>)>>
            ELSE <<>>])

\* connected_nodes of a star: for each edge, its source when it reaches the
\* node, else its target when it leaves it
ConnectedNodes(g, id) ==
    LET edges == SelectSeq(g.edges, LAMBDA e : e.target = id \/ e.source = id)
    IN  [i \in 1..Len(edges) |->
            IF edges[i].target = id THEN edges[i].source ELSE edges[i].target]

DetectStarPatterns(g) ==
    Concat([i \in 1..Len(g.nodes) |->
        IF NodeDegree(g, g.nodes[i].id) >= 3
        THEN <<Pattern("star_pattern",
                       <<g.nodes[i].id>> \o ConnectedNodes(g, g.nodes[i].id),
                       <<g.nodes[i].id, Len(ConnectedNodes(g, g.nodes[i].id))>>)>>
        ELSE <<>>])

\* the patterns in the order of the four detectors
GraphPatterns(g) ==
    DetectChains(g) \o DetectDialecticalPairs(g) \o DetectSynthesisTriangles(g)
        \o DetectStarPatterns(g)

\* graph_pattern_summary: the nodes of a pattern by label, those that are no
\* node of the graph left out
GraphPatternSummary(g) ==
    LET patterns == GraphPatterns(g)
        label(id) == (CHOOSE n \in Range(g.nodes) : n.id = id).label
    IN  [k \in 1..Len(patterns) |->
            Pattern(patterns[k].type,
                    MapFilter(patterns[k].nodes, NodeIds(g),
                              [id \in NodeIds(g) |-> label(id)]),
                    patterns[k].description)]

EmptyAnalysis == [inferred_intent |-> NoValue]

GraphAnalysis(g, comms) ==
    [node_count |-> Len(g.nodes),
     edge_count |-> Len(g.edges),
     central_nodes |-> CentralNodes(g),
     key_semantic_edges |-> KeySemanticEdges(g),
     category_counts |-> CategoryCounts(g),
     inferred_intent |-> InferredIntent(g),
     graph_patterns |-> GraphPatternSummary(g),
     node_communities |-> comms,
     tension_edges |-> TensionEdges(g),
     synthesis_edges |-> SynthesisEdges(g),
     analogy_edges |-> AnalogyEdges(g)]

----------------------------------------------------------------------------
(* SynthesisCore._plan_ki_queries *)

\* node_map.get(id): the node of that identifier, or None
NodeMapGet(g, id) ==
    IF id \in NodeIds(g) THEN CHOOSE n \in Range(g.nodes) : n.id = id ELSE NoValue

\* the strings of the model that contain ":" or start with "ki-"
KiFormStrings == {"k:a", "k:b", "k:c", "k:d", "k:e", "k:x", "k:y", "n:1"}

\* id_val and (":" in id_val or id_val.startswith("ki-"))
HasKiForm(s) == s # NoValue /\ s \in KiFormStrings

\* node.ki_id if node.ki_id else node.id
KiIdOrId(n) == IF n.ki_id # NoValue THEN n.ki_id ELSE n.id

\* nodes_for_context_ids: the central identifiers and the ends of the key edges
NodesForContextIds(g, a) ==
    {a.central_nodes[i][1] : i \in 1..Len(a.central_nodes)}
        \cup {KiIdOrId(NodeMapGet(g, e.source)) :
                e \in {x \in Range(a.key_semantic_edges) : x.source \in NodeIds(g)}}
        \cup {KiIdOrId(NodeMapGet(g, e.target)) :
                e \in {x \in Range(a.key_semantic_edges) : x.target \in NodeIds(g)}}

\* the lists a Python set may be iterated as
Orderings(S) == {s \in [1..Cardinality(S) -> S] : Range(s) = S}

BothEndsHaveKiId(g, e) ==
    /\ e.source \in NodeIds(g) /\ e.target \in NodeIds(g)
    /\ NodeMapGet(g, e.source).ki_id # NoValue
    /\ NodeMapGet(g, e.target).ki_id # NoValue

\* the (source ki_id, target ki_id) pairs of the edges whose two ends have one
InteractionChecks(g, edges) ==
    MapFilter(edges, {e \in Range(edges) : BothEndsHaveKiId(g, e)},
              [e \in Range(edges) |->
                  <<NodeMapGet(g, e.source).ki_id, NodeMapGet(g, e.target).ki_id>>])

CentralNodeKiIds(a) ==
    MapFilter(a.central_nodes,
              {c \in Range(a.central_nodes) : HasKiForm(c[1])},
              [c \in Range(a.central_nodes) |-> c[1]])

\* the custom queries the intent adds
IntegrativeQueries(g, a) ==
    MapFilter(a.synthesis_edges,
              {e \in Range(a.synthesis_edges) :
                    e.source \in NodeIds(g) /\ NodeMapGet(g, e.source).ki_id # NoValue},
              [e \in Range(a.synthesis_edges) |->
                  [method |-> "find_similar",
                   query |-> <<NodeMapGet(g, e.source).label>>, n_results |-> 5]])

DialecticalQueries(g, a) ==
    MapFilter(a.tension_edges,
              {e \in Range(a.tension_edges) :
                    e.source \in NodeIds(g) /\ e.target \in NodeIds(g)},
              [e \in Range(a.tension_edges) |->
                  [method |-> "find_similar",
                   query |-> <<NodeMapGet(g, e.source).label, e.semantic_type,
                               NodeMapGet(g, e.target).label>>,
                   n_results |-> 3]])

AnalogyQueries(g, a) ==
    MapFilter(a.analogy_edges,
              {e \in Range(a.analogy_edges) :
                    e.source \in NodeIds(g) /\ e.target \in NodeIds(g)},
              [e \in Range(a.analogy_edges) |->
                  [method |-> "find_analogies",
                   query |-> <<NodeMapGet(g, e.source).label,
                               NodeMapGet(g, e.target).type>>,
                   n_results |-> 3]])

VectorAnalogyEdges(g, a) ==
    SelectSeq(a.analogy_edges,
              LAMBDA e : /\ e.source \in NodeIds(g) /\ e.target \in NodeIds(g)
                         /\ \/ NodeMapGet(g, e.source).ki_id # NoValue
                            \/ NodeMapGet(g, e.target).ki_id # NoValue)

derivation_edge_types == {"DERIVES_FROM", "IS_COMPONENT_OF"}

KgLineageTraces(g, a) ==
    MapFilter(a.key_semantic_edges,
              {e \in Range(a.key_semantic_edges) :
                    /\ e.semantic_type \in derivation_edge_types
                    /\ e.source \in NodeIds(g)
                    /\ NodeMapGet(g, e.source).ki_id # NoValue},
              [e \in Range(a.key_semantic_edges) |-> NodeMapGet(g, e.source).ki_id])

KIQueryPlan(context_nodes, checks, similarity_nodes, analogy_edges, traces, queries) ==
    [kg_context_nodes |-> context_nodes,
     kg_interaction_checks |-> checks,
     vector_similarity_nodes |-> similarity_nodes,
     vector_analogy_edges |-> analogy_edges,
     kg_lineage_traces |-> traces,
     vector_queries |-> queries]

\* QueryPlans as it would be if the interaction checks and the analogy
\* searches were planned over every edge of the graph
QueryPlans_EveryEdge(g, a) ==
    {KIQueryPlan(
        context_nodes,
        InteractionChecks(g, g.edges),
        CentralNodeKiIds(a),
        VectorAnalogyEdges(g, [a EXCEPT !.analogy_edges = g.edges]),
        KgLineageTraces(g, a),
        (IF a.inferred_intent = "integrative_synthesis" THEN IntegrativeQueries(g, a)
         ELSE IF a.inferred_intent = "dialectical_synthesis" THEN DialecticalQueries(g, a)
         ELSE <<>>) \o AnalogyQueries(g, a)) :
     context_nodes \in Orderings({id \in NodesForContextIds(g, a) : HasKiForm(id)})}

\* the plans _plan_ki_queries may return: kg_context_nodes is read off a set
QueryPlans(g, a) ==
    {KIQueryPlan(
        context_nodes,
        InteractionChecks(g, a.tension_edges) \o InteractionChecks(g, a.synthesis_edges),
        CentralNodeKiIds(a),
        VectorAnalogyEdges(g, a),
        KgLineageTraces(g, a),
        (IF a.inferred_intent = "integrative_synthesis" THEN IntegrativeQueries(g, a)
         ELSE IF a.inferred_intent = "dialectical_synthesis" THEN DialecticalQueries(g, a)
         ELSE <<>>) \o AnalogyQueries(g, a)) :
     context_nodes \in Orderings({id \in NodesForContextIds(g, a) : HasKiForm(id)})}

----------------------------------------------------------------------------
(* SynthesisCore._execute_ki_queries *)

KIContext(node_contexts, interactions, similarities, analogies, lineage_paths) ==
    [kg_node_contexts |-> node_contexts,
     kg_interactions |-> interactions,
     vector_similarities |-> similarities,
     vector_analogies |-> analogies,
     kg_lineage_paths |-> lineage_paths]

\* a dict keeps its keys in the order of their first insertion: the list of
\* its <<key, value>> items
EmptyDict == <<>>

\* list(d.keys())
DictKeys(d) == [i \in 1..Len(d) |-> d[i][1]]

\* d.get(k) is not None
DictHas(d, k) == \E i \in 1..Len(d) : d[i][1] = k

\* d[k], for a key of d
DictGet(d, k) == d[CHOOSE i \in 1..Len(d) : d[i][1] = k][2]

\* d[k] = v: a key that is there keeps its place
DictPut(d, k, v) ==
    IF DictHas(d, k)
    THEN [i \in 1..Len(d) |-> IF d[i][1] = k THEN <<k, v>> ELSE d[i]]
    ELSE Append(d, <<k, v>>)

\* what a call of a collaborator may do: raise, return nothing, return data
CallOutcomes == {"raise", "none", "data"}

\* what a call of a method named in a custom vector query may do
CustomOutcomes == {"no_method", "raise", "none", "list", "other"}

NodeContextData == [summary |-> "summary"]
InteractionData == <<[type |-> "INFLUENCED_BY"]>>
SimilarData == <<[label |-> "Similar Concept", similarity |-> 1]>>
LineagePathData == <<"ancestor">>

\* the value a handler yields when the exception of a call leaves the function
Escaped == [escaped |-> TRUE]

\* 1. one iteration of the loop over kg_context_nodes; the except clause logs
ContextFetchStep(ctx, ki_id, outcome) ==
    IF outcome = "data"
    THEN [ctx EXCEPT !.kg_node_contexts = DictPut(@, ki_id, NodeContextData)]
    ELSE ctx

\* 2. one iteration of the loop over kg_interaction_checks
InteractionCheckStep(ctx, check, outcome) ==
    IF outcome = "data"
    THEN [ctx EXCEPT !.kg_interactions = DictPut(@, check, InteractionData)]
    ELSE ctx

\* _build_query_text: the identifier when there is no context, else the summary
BuildQueryText(node_id, node_contexts) ==
    IF DictHas(node_contexts, node_id)
    THEN DictGet(node_contexts, node_id).summary
    ELSE node_id

\* 3. one iteration of the loop over vector_similarity_nodes: the context is
\* fetched when none is stored (fetch), then the similar concepts are searched
\* (search); an exception of the fetch skips the search.
\* [ctx: the context left, fetched, searched: the calls that were issued]
SimilarityStep(ctx, node_ki_id, fetch, search) ==
    LET refetch == ~DictHas(ctx.kg_node_contexts, node_ki_id)
        ctx1 == IF refetch /\ fetch = "data"
                THEN [ctx EXCEPT !.kg_node_contexts = DictPut(@, node_ki_id, NodeContextData)]
                ELSE ctx
        query_text == BuildQueryText(node_ki_id, ctx1.kg_node_contexts)
    IN  IF refetch /\ fetch = "raise"
        THEN [ctx |-> ctx, fetched |-> TRUE, searched |-> FALSE]
        ELSE [ctx |-> IF search = "data"
                      THEN [ctx1 EXCEPT !.vector_similarities =
                                            DictPut(@, node_ki_id, SimilarData)]
                      ELSE ctx1,
              fetched |-> refetch,
              searched |-> TRUE]

\* 4. one iteration of the loop over vector_analogy_edges; the contexts are
\* looked up under the identifiers of the graph, and never fetched
AnalogyStep(ctx, edge, outcome) ==
    IF outcome = "data"
    THEN [ctx EXCEPT !.vector_analogies =
                        DictPut(@, <<edge.source, edge.target>>, SimilarData)]
    ELSE ctx

\* f"custom_{method_name}_{n}"
CustomKey(method, n) ==
    IF method = "find_similar"
    THEN <<"custom_find_similar_0", "custom_find_similar_1", "custom_find_similar_2",
           "custom_find_similar_3", "custom_find_similar_4", "custom_find_similar_5",
           "custom_find_similar_6", "custom_find_similar_7">>[n + 1]
    ELSE <<"custom_find_analogies_0", "custom_find_analogies_1", "custom_find_analogies_2",
           "custom_find_analogies_3", "custom_find_analogies_4", "custom_find_analogies_5",
           "custom_find_analogies_6", "custom_find_analogies_7">>[n + 1]

\* 6. one iteration of the loop over vector_queries: a list is stored with the
\* similarities
CustomQueryStep(ctx, vector_query, outcome) ==
    IF outcome = "list"
    THEN [ctx EXCEPT !.vector_similarities =
            DictPut(@, CustomKey(vector_query.method,
                                 Len(ctx.vector_similarities) + Len(ctx.vector_analogies)),
                    SimilarData)]
    ELSE ctx

\* LineageTraceStep as it would be without the try / except around the call
LineageTraceStep_NoExcept(ctx, node_ki_id, outcome) ==
    IF outcome = "raise" THEN Escaped
    ELSE IF outcome = "data"
    THEN [ctx EXCEPT !.kg_lineage_paths = DictPut(@, node_ki_id, LineagePathData)]
    ELSE ctx

\* 5. one iteration of the loop over kg_lineage_traces
LineageTraceStep(ctx, node_ki_id, outcome) ==
    IF outcome = "data"
    THEN [ctx EXCEPT !.kg_lineage_paths = DictPut(@, node_ki_id, LineagePathData)]
    ELSE ctx

ExecPhases ==
    {"exec_context", "exec_interactions", "exec_similarity", "exec_analogy",
     "exec_custom", "exec_lineage"}

\* the list the loop of a phase runs over
PhaseList(phase, plan) ==
    CASE phase = "exec_context" -> plan.kg_context_nodes
      [] phase = "exec_interactions" -> plan.kg_interaction_checks
      [] phase = "exec_similarity" -> plan.vector_similarity_nodes
      [] phase = "exec_analogy" -> plan.vector_analogy_edges
      [] phase = "exec_custom" -> plan.vector_queries
      [] phase = "exec_lineage" -> plan.kg_lineage_traces

\* PhaseAfter without the guard `if self.vector_interface`
PhaseAfter_NoGuard(phase, with_vector) ==
    CASE phase = "exec_context" -> "exec_interactions"
      [] phase = "exec_interactions" -> "exec_similarity"
      [] phase = "exec_similarity" -> "exec_analogy"
      [] phase = "exec_analogy" -> "exec_custom"
      [] phase = "exec_custom" -> "exec_lineage"
      [] phase = "exec_lineage" -> "prompt"

\* the order of the loops; `if self.vector_interface` guards the three vector loops
PhaseAfter(phase, with_vector) ==
    CASE phase = "exec_context" -> "exec_interactions"
      [] phase = "exec_interactions" ->
            IF with_vector THEN "exec_similarity" ELSE "exec_lineage"
      [] phase = "exec_similarity" -> "exec_analogy"
      [] phase = "exec_analogy" -> "exec_custom"
      [] phase = "exec_custom" -> "exec_lineage"
      [] phase = "exec_lineage" -> "prompt"

----------------------------------------------------------------------------
(* SynthesisCore._construct_llm_prompt *)

\* the headings of the knowledge context, each left out when its dict is empty
ContextHeadings(ctx) ==
    (IF ctx.kg_node_contexts # EmptyDict THEN <<"### Node Contexts:">> ELSE <<>>)
    \o (IF ctx.kg_interactions # EmptyDict THEN <<"### Known Interactions:">> ELSE <<>>)
    \o (IF ctx.vector_similarities # EmptyDict THEN <<"### Similar Concepts:">> ELSE <<>>)
    \o (IF ctx.vector_analogies # EmptyDict THEN <<"### Analogies:">> ELSE <<>>)
    \o (IF ctx.kg_lineage_paths # EmptyDict THEN <<"### Historical Influences:">> ELSE <<>>)

\* the framing of the task: one branch for each of five intents, else the generic one
TaskFraming(intent) ==
    CASE intent = "dialectical_synthesis" -> "dialectical"
      [] intent = "integrative_synthesis" -> "integrative"
      [] intent = "analogical_reasoning" -> "analogical"
      [] intent = "causal_analysis" -> "causal"
      [] intent = "framework_building" -> "framework"
      [] OTHER -> "generic"

\* the keys of directive_map
DirectiveTypes ==
    {"IS_ANALOGOUS_TO", "IS_METAPHOR_FOR", "SYMBOLIZES", "OPPOSES", "CONTRADICTS_CLAIM",
     "CHALLENGES_PREMISE_OF", "GENERATES_PARADOX_FROM", "RESOLVES_TENSION_BETWEEN",
     "CAUSES", "ENABLES", "INFLUENCES", "AMPLIFIES"}

\* EdgeDirectives as it would be if the template were filled with the labels
\* the other way round
EdgeDirectives_Swapped(g) ==
    MapFilter(g.edges,
              {e \in Range(g.edges) : /\ e.source \in NodeIds(g)
                                      /\ e.target \in NodeIds(g)
                                      /\ e.semantic_type \in DirectiveTypes},
              [e \in Range(g.edges) |->
                  [template |-> e.semantic_type,
                   source |-> NodeMapGet(g, e.target).label,
                   target |-> NodeMapGet(g, e.source).label]])

\* one directive for each edge with both endpoints in the graph and a template
EdgeDirectives(g) ==
    MapFilter(g.edges,
              {e \in Range(g.edges) : /\ e.source \in NodeIds(g)
                                      /\ e.target \in NodeIds(g)
                                      /\ e.semantic_type \in DirectiveTypes},
              [e \in Range(g.edges) |->
                  [template |-> e.semantic_type,
                   source |-> NodeMapGet(g, e.source).label,
                   target |-> NodeMapGet(g, e.target).label]])

\* "- {source.label} [{semantic_type}] {target.label}" for each edge whose two
\* ends are nodes of the graph
RelationshipLines(g) ==
    MapFilter(g.edges,
              {e \in Range(g.edges) : e.source \in NodeIds(g) /\ e.target \in NodeIds(g)},
              [e \in Range(g.edges) |->
                  <<NodeMapGet(g, e.source).label, e.semantic_type,
                    NodeMapGet(g, e.target).label>>])

\* the nodes whose ki_id or id is the key of a context entry
MatchingNodes(g, key) ==
    {i \in 1..Len(g.nodes) : g.nodes[i].ki_id = key \/ g.nodes[i].id = key}

\* the label an entry is printed under: of the first matching node where the
\* loop breaks, of the last one where it does not, else the default
FirstLabel(g, key, default) ==
    IF MatchingNodes(g, key) = {} THEN default
    ELSE [label |-> g.nodes[CHOOSE i \in MatchingNodes(g, key) :
                                \A j \in MatchingNodes(g, key) : i <= j].label]

LastLabel(g, key, default) ==
    IF MatchingNodes(g, key) = {} THEN default
    ELSE [label |-> g.nodes[CHOOSE i \in MatchingNodes(g, key) :
                                \A j \in MatchingNodes(g, key) : j <= i].label]

\* f"Node {key}"
NodeKeyLabel(key) == [node |-> key]

\* node_id.startswith("custom_")
IsCustomKey(key) ==
    \E n \in 0..7 : key \in {CustomKey("find_similar", n), CustomKey("find_analogies", n)}

Labels(items, n) == [i \in 1..Min(n, Len(items)) |-> items[i].label]

\* the lines under the headings of the knowledge context, a dict being read
\* in the order of its keys; an entry with nothing to list has no line, and
\* the paths of kg_lineage_paths, which are no lists, have none
ContextEntries(g, ctx) ==
    [i \in 1..Len(ctx.kg_node_contexts) |->
        [section |-> "Node Contexts",
         of |-> <<FirstLabel(g, ctx.kg_node_contexts[i][1],
                             NodeKeyLabel(ctx.kg_node_contexts[i][1]))>>,
         text |-> <<ctx.kg_node_contexts[i][2].summary>>]]
    \o MapFilter(ctx.kg_interactions,
                 {it \in Range(ctx.kg_interactions) : it[2] # <<>>},
                 [it \in Range(ctx.kg_interactions) |->
                     [section |-> "Known Interactions",
                      of |-> <<LastLabel(g, it[1][1], NodeKeyLabel(it[1][1])),
                               LastLabel(g, it[1][2], NodeKeyLabel(it[1][2]))>>,
                      text |-> [j \in 1..Len(it[2]) |-> it[2][j].type]]])
    \o MapFilter(ctx.vector_similarities,
                 {it \in Range(ctx.vector_similarities) : it[2] # <<>>},
                 [it \in Range(ctx.vector_similarities) |->
                     [section |-> "Similar Concepts",
                      of |-> <<IF IsCustomKey(it[1]) THEN [label |-> "Custom query"]
                               ELSE FirstLabel(g, it[1], NodeKeyLabel(it[1]))>>,
                      text |-> Labels(it[2], 5)]])
    \o MapFilter(ctx.vector_analogies,
                 {it \in Range(ctx.vector_analogies) : it[2] # <<>>},
                 [it \in Range(ctx.vector_analogies) |->
                     [section |-> "Analogies",
                      of |-> <<LastLabel(g, it[1][1], [label |-> it[1][1]]),
                               LastLabel(g, it[1][2], [label |-> it[1][2]])>>,
                      text |-> Labels(it[2], 3)]])

\* "Central nodes: ...": the label of the first node of that identifier, with
\* the degree
CentralNodeLines(g, a) ==
    [i \in 1..Len(a.central_nodes) |->
        <<FirstLabel(g, a.central_nodes[i][1], NodeKeyLabel(a.central_nodes[i][1])),
          a.central_nodes[i][2]>>]

\* node_map.get(id, id): the label of the node, or the identifier itself
LabelOrId(g, id) == IF id \in NodeIds(g) THEN NodeMapGet(g, id).label ELSE id

\* "Key tensions: {source} vs {target}; ..."
TensionLines(g, a) ==
    [i \in 1..Len(a.tension_edges) |->
        <<LabelOrId(g, a.tension_edges[i].source), LabelOrId(g, a.tension_edges[i].target)>>]

\* the sentence the number of nodes adds to the task
GraphScope(g) ==
    IF Len(g.nodes) <= 2 THEN "focused"
    ELSE IF Len(g.nodes) >= 5 THEN "complex" ELSE "none"

\* LLMPrompt as it would be if the directives were put in front of the list
\* rather than appended to it
LLMPrompt_Prepend(g, a, ctx) ==
    [nodes |-> [i \in 1..Len(g.nodes) |-> g.nodes[i].label],
     relationships |-> RelationshipLines(g),
     central_nodes |-> CentralNodeLines(g, a),
     patterns |-> [k \in 1..Len(a.graph_patterns) |-> a.graph_patterns[k].description],
     tensions |-> TensionLines(g, a),
     intent |-> a.inferred_intent,
     knowledge_context |-> ContextHeadings(ctx),
     context_entries |-> ContextEntries(g, ctx),
     task |-> TaskFraming(a.inferred_intent),
     scope |-> GraphScope(g),
     directives |-> [i \in 1..Len(EdgeDirectives(g)) |->
                        EdgeDirectives(g)[Len(EdgeDirectives(g)) + 1 - i]]]

\* the prompt: the parts of the text that depend on the three arguments
LLMPrompt(g, a, ctx) ==
    [nodes |-> [i \in 1..Len(g.nodes) |-> g.nodes[i].label],
     relationships |-> RelationshipLines(g),
     central_nodes |-> CentralNodeLines(g, a),
     patterns |-> [k \in 1..Len(a.graph_patterns) |-> a.graph_patterns[k].description],
     tensions |-> TensionLines(g, a),
     intent |-> a.inferred_intent,
     knowledge_context |-> ContextHeadings(ctx),
     context_entries |-> ContextEntries(g, ctx),
     task |-> TaskFraming(a.inferred_intent),
     scope |-> GraphScope(g),
     directives |-> EdgeDirectives(g)]

----------------------------------------------------------------------------
(* GeminiLLMClient.agenerate_text and SynthesisCore._parse_llm_output *)

\* A text is the list of its lines, split('\n'); the empty text is one empty line.
EmptyText == <<"">>
ErrorText == <<"Error during async Gemini generation: unavailable">>
HeaderText == <<"Name: X", "Description: Y", "", "Body">>
PlainText == <<"Title", "Body">>

\* Texts that follow the header convention: a name line, a description line,
\* an optional blank line, and a body that may be empty, shorter than the
\* description, or longer
HeaderBodies ==
    {<<>>, <<"B">>, <<"Body">>, <<"Body", "More">>,
     <<"The body of the synthesis", "More">>}
HeaderTexts ==
    {<<n, d>> \o sep \o body :
        n \in {"Name: X", "name: Long Name"},
        d \in {"Description: Y", "description: A long description."},
        sep \in {<<>>, <<"">>},
        body \in HeaderBodies} \ {<<n, d, "">> :
        n \in {"Name: X", "name: Long Name"},
        d \in {"Description: Y", "description: A long description."}}

\* what agenerate_text may hand back: the text of the response, the empty text
\* when the response has none, the text of an error it caught
GeneratedTexts == {EmptyText, ErrorText, HeaderText, PlainText}

\* line.lower().startswith("name:") and the rest of the line, stripped
IsNameLine(line) == line \in {"Name: X", "name: Long Name"}
NameOf(line) == IF line = "Name: X" THEN "X" ELSE "Long Name"

IsDescriptionLine(line) ==
    line \in {"Description: Y", "description: A long description."}
DescriptionOf(line) ==
    IF line = "Description: Y" THEN <<"Y">> ELSE <<"A long description.">>

\* len(line) of the lines a description or a content is made of
CharCount(line) ==
    CASE line = "" -> 0
      [] line = "Y" -> 1
      [] line = "B" -> 1
      [] line = "..." -> 3
      [] line = "Body" -> 4
      [] line = "More" -> 4
      [] line = "Title" -> 5
      [] line = "A long description." -> 19
      [] line = "The body of the synthesis" -> 25
      [] line = "Synthesis based on input graph. Content: " -> 41
      [] line = "Error during async Gemini generation: unavailable" -> 49

\* "..." is appended to its text and the generic prefix is put before it
\* without a line break
JoinedPieces == {"...", "Synthesis based on input graph. Content: "}

RECURSIVE SumCharCount(_)
SumCharCount(lines) ==
    IF lines = <<>> THEN 0 ELSE CharCount(Head(lines)) + SumCharCount(Tail(lines))

\* len(text): the characters of the lines and one line break between two lines
TextLength(lines) ==
    LET broken == Len(SelectSeq(lines, LAMBDA l : l \notin JoinedPieces))
    IN  SumCharCount(lines) + (IF broken > 1 THEN broken - 1 ELSE 0)

\* join(lines).strip(): blank lines at either end go
RECURSIVE StripLines(_)
StripLines(lines) ==
    IF lines = <<>> THEN <<>>
    ELSE IF Head(lines) = "" THEN StripLines(Tail(lines))
    ELSE IF lines[Len(lines)] = "" THEN StripLines(SubSeq(lines, 1, Len(lines) - 1))
    ELSE lines

\* the first fifty / hundred and fifty characters and "..."; the lines of the
\* model are shorter than that
Ellipsis(lines) == lines \o <<"...">>

DefaultName == "Synthesized Concept"

ParseLLMOutput(lines) ==
    LET        name_found == IsNameLine(lines[1])
        desc_found == Len(lines) > 1 /\ IsDescriptionLine(lines[2])
        start_index == (IF name_found THEN 1 ELSE 0) + (IF desc_found THEN 1 ELSE 0)
        body_index == IF start_index < Len(lines) /\ lines[start_index + 1] = ""
                      THEN start_index + 1 ELSE start_index
        content0 == StripLines(SubSeq(lines, body_index + 1, Len(lines)))
        \* the first line of the content becomes the name when there is no header
        heuristic == ~name_found /\ content0 # <<>>
        name == IF name_found THEN NameOf(lines[1])
                ELSE IF heuristic THEN content0[1] ELSE DefaultName
        content1 == IF heuristic /\ Len(content0) > 1
                    THEN StripLines(Tail(content0)) ELSE content0
        description0 ==
            IF desc_found THEN DescriptionOf(lines[2])
            ELSE IF name_found \/ name # DefaultName THEN Ellipsis(content1)
            ELSE <<"Synthesis based on input graph. Content: ">> \o Ellipsis(content1)
        content == IF content1 # <<>> THEN content1 ELSE description0
        \* a description longer than the content is cut again
        description == IF TextLength(description0) > TextLength(content)
                       THEN Ellipsis(content) ELSE description0
    IN  [name |-> name, description |-> description, content |-> content]

\* SynthesisOutput(id=..., status="success", parent_node_ids=..., **parsed_output);
\* the model ignores the fields it does not declare
SynthesisOutput(id, parsed_output, parent_node_ids) ==
    [id |-> id,
     name |-> parsed_output.name,
     description |-> parsed_output.description,
     parent_node_ids |-> parent_node_ids,
     status |-> "success"]

----------------------------------------------------------------------------
(* LineageMapper: _format_as_lineage_item and trace_lineage *)

\* the fields LineageItem declares, and those of them it requires
LineageItemFields == {"id", "name", "type", "contribution", "connection_via"}
LineageItemRequired == {"id", "name", "type"}

ValidationError == [error |-> "ValidationError"]
NoItem == [item |-> NoValue]

\* LineageItem(**kwargs): a required field that is missing is a
\* ValidationError, a keyword that is no field is ignored
LineageItem(kwargs) ==
    IF LineageItemRequired \subseteq DOMAIN kwargs
    THEN [f \in LineageItemFields \cap DOMAIN kwargs |-> kwargs[f]]
    ELSE ValidationError

\* _format_as_lineage_item(node_data, connection_info=None): None for a node
\* without ki_id, and None when the LineageItem cannot be built
FormatAsLineageItem(node_data) ==
    LET item == LineageItem([ki_id |-> node_data.ki_id,
                             label |-> node_data.label,
                             node_type |-> node_data.type,
                             description |-> "",
                             contribution |-> "Concept",
                             connection_via |-> "Direct Parent"])
    IN  IF node_data.ki_id = NoValue THEN NoItem
        ELSE IF item = ValidationError THEN NoItem
        ELSE item

\* generating_node_ki_map: the node of a ki_id is the last one that carries it
KiMapHas(g, ki_id) == \E i \in 1..Len(g.nodes) : g.nodes[i].ki_id = ki_id

KiMapGet(g, ki_id) ==
    LET last == CHOOSE i \in 1..Len(g.nodes) :
                    /\ g.nodes[i].ki_id = ki_id
                    /\ \A j \in (i + 1)..Len(g.nodes) : g.nodes[j].ki_id # ki_id
    IN  g.nodes[last]

\* DirectParentStep with an else branch that only logs the warning
DirectParentStep_NoSeed(g, lin, ki_id) ==
    IF KiMapHas(g, ki_id)
    THEN LET item == FormatAsLineageItem(KiMapGet(g, ki_id))
         IN  IF item # NoItem
             THEN [lin EXCEPT !.direct_parents = Append(@, item),
                              !.deep_lineage_seed_ids = @ \cup {ki_id}]
             ELSE lin
    ELSE lin

\* Step 1, one iteration of the loop over parent_ki_ids
DirectParentStep(g, lin, ki_id) ==
    IF KiMapHas(g, ki_id)
    THEN LET item == FormatAsLineageItem(KiMapGet(g, ki_id))
         IN  IF item # NoItem
             THEN [lin EXCEPT !.direct_parents = Append(@, item),
                              !.deep_lineage_seed_ids = @ \cup {ki_id}]
             ELSE lin
    ELSE [lin EXCEPT !.deep_lineage_seed_ids = @ \cup {ki_id}]

\* the members of RelationshipType the deep trace names; CRITIQUED_BY is none
RelationshipTypeMembers ==
    {"SUBCLASS_OF", "INSTANCE_OF", "PART_OF", "INFLUENCED_BY", "DISCUSSED_BY",
     "CONTRADICTS", "CITES", "USES_METAPHOR", "BASED_ON_AXIOM", "DERIVED_FROM",
     "PRECEDES", "CONTEMPORARY_WITH", "LOCATED_IN", "HAS_AUTHOR", "HAS_MEMBER",
     "RELATED_TO"}

influence_rels ==
    <<"INFLUENCED_BY", "DERIVED_FROM", "CRITIQUED_BY", "BUILT_UPON", "REFERENCES_WORK",
      "PART_OF_SCHOOL", "ASSOCIATED_WITH_EPOCH">>

\* building the list of relationships raises AttributeError at the first name
\* that is no member of the enum
InfluenceRelsRaise == \E i \in 1..Len(influence_rels) :
                          influence_rels[i] \notin RelationshipTypeMembers

limit_per_type == 3

RECURSIVE DedupByKiId(_, _)
\* deduplicated_thinkers: one node for a ki_id, seeds left out, in the order of
\* the first insertion
DedupByKiId(nodes, skip) ==
    IF nodes = <<>> THEN <<>>
    ELSE IF Head(nodes).ki_id = NoValue \/ Head(nodes).ki_id \in skip
         THEN DedupByKiId(Tail(nodes), skip)
         ELSE <<Head(nodes)>> \o DedupByKiId(Tail(nodes), skip \cup {Head(nodes).ki_id})

\* the thinkers of the fallback: the first limit_per_type nodes, formatted, those
\* left out whose LineageItem is None
FallbackThinkers(lin) ==
    LET deduplicated == DedupByKiId(lin.thinker_results_raw, lin.deep_lineage_seed_ids)
        final_thinker_nodes ==
            SubSeq(deduplicated, 1, Min(limit_per_type, Len(deduplicated)))
        items == [i \in 1..Len(final_thinker_nodes) |->
                     FormatAsLineageItem(final_thinker_nodes[i])]
    IN  SelectSeq(items, LAMBDA item : item # NoItem)

\* LineageReport(...): foundational_elements is given a dict with none of the
\* fields of FoundationalElements, which then keeps its empty lists
LineageReport(synthesized_concept_id, direct_parents, key_influencers, schools_and_epochs) ==
    [synthesized_concept_id |-> synthesized_concept_id,
     direct_parents |-> direct_parents,
     key_influencers |-> key_influencers,
     schools_and_epochs |-> schools_and_epochs,
     foundational_elements |-> [underlying_axioms |-> <<>>, core_metaphors |-> <<>>],
     semantic_resonances |-> <<>>]

NoReport == [synthesized_concept_id |-> NoValue]

\* the local variables of trace_lineage
LineageState(synthesis_output) ==
    [synthesis_output |-> synthesis_output,
     direct_parents |-> <<>>,
     deep_lineage_seed_ids |-> {},
     seeds_left |-> {},
     thinker_results_raw |-> <<>>,
     key_thinkers |-> <<>>,
     report |-> NoReport]

----------------------------------------------------------------------------
(* The requests the model is run on *)

PoolIds == <<"a", "b", "c", "d", "e", "f">>
PoolKiIds == <<NoValue, "k:b", NoValue, "k:d", "k:e", NoValue>>
PoolLabels == <<"A", "B", "C", "D", "E", "F">>
EdgeIds == <<"e1", "e2", "e3", "e4", "e5">>

PoolNode(i) == NodeData(PoolIds[i], PoolKiIds[i], PoolLabels[i])

\* the first n nodes of the pool, in order
PoolNodes(n) == [i \in 1..n |-> PoolNode(i)]

\* every list of at most MaxEdges edges with endpoints in ids and a type in types
EdgeLists(ids, types) ==
    {[k \in 1..Len(s) |-> EdgeData(EdgeIds[k], s[k][1], s[k][2], s[k][3])] :
        s \in SeqsUpTo(ids \X ids \X types, MaxEdges)}

\* Graphs for the structure of the graph: up to MaxNodes nodes, edges of two
\* types between the first three identifiers of the pool, so that an edge may
\* name an identifier that is no node of the graph.
StructureEdgeTypes == {"OPPOSES", "RELATED_TO"}

StructureGraphs ==
    {GraphStructure(PoolNodes(n), edges) :
        n \in 0..MaxNodes,
        edges \in EdgeLists({"a", "b", "c"}, StructureEdgeTypes)}

\* Graphs for the semantic types: two nodes, edges of a type of every category,
\* of the type the pair detector leaves out, and of an uncategorized type.
CategoryEdgeTypes ==
    {"OPPOSES", "GENERATES_PARADOX_FROM", "SYNTHESIZES_WITH", "IS_ANALOGOUS_TO",
     "DERIVES_FROM", "CAUSES", "RELATED_TO"}

CategoryGraphs ==
    {GraphStructure(PoolNodes(2), edges) :
        edges \in EdgeLists({"a", "b"}, CategoryEdgeTypes)}

AnalyzeGraphs == StructureGraphs \cup CategoryGraphs

\* Graphs for the motifs: three nodes, at most MaxMotifEdges edges of two
\* synthesis types, along a path a -> b -> c, back from c to a and from b to
\* a, and from a to c, several of them between the same pair.
MotifEdgeTypes == {"SYNTHESIZES_WITH", "RESONATES_WITH"}
MotifEndpoints == {<<"a", "b">>, <<"b", "c">>, <<"c", "a">>, <<"b", "a">>, <<"a", "c">>}

MotifGraphs ==
    {GraphStructure(PoolNodes(3),
                    [k \in 1..Len(s) |->
                        EdgeData(EdgeIds[k], s[k][1][1], s[k][1][2], s[k][2])]) :
        s \in SeqsUpTo(MotifEndpoints \X MotifEdgeTypes, MaxMotifEdges)}

\* Graphs for a whole request: two nodes that carry a knowledge identifier, at
\* most MaxRequestEdges edges, an edge may name an identifier that is no node.
RequestEdgeTypes == {"OPPOSES", "SYNTHESIZES_WITH", "IS_ANALOGOUS_TO", "DERIVES_FROM"}
RequestEndpoints == {<<"b", "d">>, <<"b", "zz">>}

SynthesisGraphs ==
    {GraphStructure(<<PoolNode(2), PoolNode(4)>>,
                    [k \in 1..Len(s) |->
                        EdgeData(EdgeIds[k], s[k][1][1], s[k][1][2], s[k][2])]) :
        s \in SeqsUpTo(RequestEndpoints \X RequestEdgeTypes, MaxRequestEdges)}

\* Graphs for the planner: the nodes are a sub-list of four nodes, two that
\* carry a knowledge identifier, one that carries none, and one that carries
\* none and whose canvas identifier contains ":"; at most MaxPlanEdges edges,
\* of a type of each of the first four categories, of the three framework
\* types, and of an uncategorized type, several of them between the same pair.
PlanPool ==
    <<NodeData("a", NoValue, "A"), NodeData("b", "k:b", "B"),
      NodeData("n:1", NoValue, "N"), NodeData("d", "k:d", "D")>>

PlanNodeLists ==
    {SelectSeqIdx(PlanPool, P, 1) : P \in SUBSET (1..Len(PlanPool))}

PlanEdgeTypes ==
    {"OPPOSES", "SYNTHESIZES_WITH", "IS_ANALOGOUS_TO", "DERIVES_FROM", "IS_AXIOM_FOR",
     "RELATED_TO"}

PlanEndpoints == {<<"a", "b">>, <<"b", "d">>, <<"n:1", "b">>}

PlanGraphs ==
    {GraphStructure(nodes,
                    [k \in 1..Len(s) |->
                        EdgeData(EdgeIds[k], s[k][1][1], s[k][1][2], s[k][2])]) :
        nodes \in PlanNodeLists,
        s \in SeqsUpTo(PlanEndpoints \X PlanEdgeTypes, MaxPlanEdges)}

\* Arguments for the prompt compiler alone: graphs of the planner's pool that
\* hold node B, with edges of a type with a directive template or without one;
\* contexts whose dicts were filled in one order or the other, under the ki_id
\* of a node, of no node, and under the key of a custom query.
CompileEdgeTypes == {"OPPOSES", "IS_ANALOGOUS_TO", "DERIVES_FROM"}

CompileGraphs ==
    {GraphStructure(nodes,
                    [k \in 1..Len(s) |->
                        EdgeData(EdgeIds[k], s[k][1][1], s[k][1][2], s[k][2])]) :
        nodes \in {l \in PlanNodeLists : \E i \in 1..Len(l) : l[i].id = "b"},
        s \in SeqsUpTo(PlanEndpoints \X CompileEdgeTypes, MaxPlanEdges)}

\* the dicts with the keys of a list, in its order
DictOf(keys, value) == [i \in 1..Len(keys) |-> <<keys[i], value>>]

CompileNodeContexts ==
    {DictOf(keys, NodeContextData) :
        keys \in {<<>>, <<"k:b">>, <<"k:b", "k:d">>, <<"k:d", "k:b">>, <<"k:x", "k:b">>}}

CompileSimilarities ==
    {DictOf(keys, SimilarData) :
        keys \in {<<>>, <<"k:d", "k:b">>, <<"k:b", CustomKey("find_similar", 1)>>}}

CompileContexts ==
    {KIContext(node_contexts, interactions, similarities, EmptyDict, EmptyDict) :
        node_contexts \in CompileNodeContexts,
        interactions \in {EmptyDict, DictOf(<<<<"k:b", "k:d">>>>, InteractionData)},
        similarities \in CompileSimilarities}

\* Graphs for the endpoint: those of a whole request, and two nodes without a
\* knowledge identifier joined by at most MaxRequestEdges RELATED_TO edges
EndpointGraphs ==
    {GraphStructure(<<PoolNode(1), PoolNode(3)>>,
                    [k \in 1..n |-> EdgeData(EdgeIds[k], "a", "c", "RELATED_TO")]) :
        n \in 0..MaxRequestEdges}

\* Generating graphs and parent identifiers for the lineage: the first nodes of
\* the pool, parents that are the ki_id of a node, of no node, or a local id
LineageGraphs == {GraphStructure(PoolNodes(n), <<>>) : n \in 0..MaxNodes}
ParentIds == {"k:b", "k:d", "k:x", "a"}
SynthesisIds == {"synthesis-1", "synthesis-2"}

EmptyPlan == [kg_context_nodes |-> <<>>]
EmptyContext == [kg_node_contexts |-> <<>>]
NoLineage == [stage |-> NoValue]
NoPrompt == [knowledge_context |-> NoValue]
NoText == <<>>
NoOutput == [status |-> NoValue]
NoResult == [output |-> NoOutput, error |-> NoValue]
NoResponse == [status |-> 0]
NoFrame == [request |-> 0]

----------------------------------------------------------------------------
(* The analyzer as a state machine *)

InitAnalyze ==
    /\ pc = "analyze"
    /\ graph \in AnalyzeGraphs
    /\ vector_present = FALSE
    /\ communities = <<>>
    /\ merged = FALSE
    /\ passes = 0
    /\ analysis = EmptyAnalysis
    /\ query_plan = EmptyPlan
    /\ ki_context = EmptyContext
    /\ idx = 0
    /\ calls = <<>>
    /\ raised = FALSE
    /\ logged_errors = 0
    /\ prompt = NoPrompt
    /\ synthesis_text = NoText
    /\ result = NoResult
    /\ lineage = NoLineage
    /\ response = NoResponse
    /\ other = NoFrame

\* _analyze_graph up to the call of _identify_communities, and the first two
\* statements of _identify_communities
AnalyzeEdges ==
    /\ pc = "analyze"
    /\ communities' = InitialCommunities(graph)
    /\ merged' = TRUE
    /\ passes' = 0
    /\ pc' = "communities"
    /\ UNCHANGED <<graph, vector_present, analysis, query_plan, ki_context, idx,
                   calls, raised, logged_errors, prompt, synthesis_text, result,
                   lineage, response, other>>

\* one iteration of `while merged and len(communities) > 1`
CommunityPass ==
    /\ pc = "communities"
    /\ merged /\ Len(communities) > 1
    /\ LET r == CommunityScan(graph, communities)
       IN  /\ communities' = r.communities
           /\ merged' = r.merged
    /\ passes' = passes + 1
    /\ UNCHANGED <<pc, graph, vector_present, analysis, query_plan, ki_context, idx,
                   calls, raised, logged_errors, prompt, synthesis_text, result,
                   lineage, response, other>>

\* the loop ends; the rest of _analyze_graph builds the GraphAnalysis
AnalyzeFinish ==
    /\ pc = "communities"
    /\ ~(merged /\ Len(communities) > 1)
    /\ analysis' = GraphAnalysis(graph, communities)
    /\ pc' = "plan"
    /\ UNCHANGED <<graph, vector_present, communities, merged, passes, query_plan,
                   ki_context, idx, calls, raised, logged_errors, prompt,
                   synthesis_text, result, lineage, response, other>>

NextAnalyze == AnalyzeEdges \/ CommunityPass \/ AnalyzeFinish

SpecAnalyze == InitAnalyze /\ [][NextAnalyze]_vars

\* _analyze_graph on the graphs for the motifs
InitMotif ==
    /\ pc = "analyze"
    /\ graph \in MotifGraphs
    /\ vector_present = FALSE
    /\ communities = <<>>
    /\ merged = FALSE
    /\ passes = 0
    /\ analysis = EmptyAnalysis
    /\ query_plan = EmptyPlan
    /\ ki_context = EmptyContext
    /\ idx = 0
    /\ calls = <<>>
    /\ raised = FALSE
    /\ logged_errors = 0
    /\ prompt = NoPrompt
    /\ synthesis_text = NoText
    /\ result = NoResult
    /\ lineage = NoLineage
    /\ response = NoResponse
    /\ other = NoFrame

SpecMotif == InitMotif /\ [][NextAnalyze]_vars

\* _analyze_graph on both families of graphs, as a call that keeps running:
\* the statements of one synchronous call are executed one after the other
\* (AnalyzeFinishes is the step AnalyzeFinish takes, told by its guard and the
\* position it leaves: the fairness condition need not build the analysis)
AnalyzeFinishes ==
    /\ pc = "communities"
    /\ ~(merged /\ Len(communities) > 1)
    /\ pc' = "plan"

SpecCommunities ==
    /\ (InitAnalyze \/ InitMotif)
    /\ [][NextAnalyze]_vars
    /\ WF_vars(AnalyzeEdges)
    /\ WF_vars(CommunityPass)
    /\ WF_pc(AnalyzeFinishes)

----------------------------------------------------------------------------
(* The executor as a state machine: one action for an iteration of each loop *)

\* the end of an iteration: the calls it issued are recorded, each as
\* <<method, argument>>, and the errors it logged are counted; an escaped
\* exception ends the function, else the loop goes on with the next entry
EndIteration(r, issued, errors) ==
    /\ calls' = calls \o issued
    /\ logged_errors' = logged_errors + errors
    /\ IF r = Escaped
       THEN /\ raised' = TRUE
            /\ pc' = "raised"
            /\ UNCHANGED <<ki_context, idx>>
       ELSE /\ ki_context' = r
            /\ idx' = idx + 1
            /\ UNCHANGED <<pc, raised>>
    /\ UNCHANGED <<graph, vector_present, communities, merged, passes, analysis,
                   query_plan, prompt, synthesis_text, result, lineage, response,
                   other>>

\* an except clause writes one logger.error record
ErrorsOf(outcome) == IF outcome = "raise" THEN 1 ELSE 0

ExecContextFetch ==
    /\ pc = "exec_context"
    /\ idx <= Len(query_plan.kg_context_nodes)
    /\ \E outcome \in CallOutcomes :
        LET ki_id == query_plan.kg_context_nodes[idx]
        IN  EndIteration(ContextFetchStep(ki_context, ki_id, outcome),
                         <<<<"get_node_context", ki_id>>>>, ErrorsOf(outcome))

ExecInteractionCheck ==
    /\ pc = "exec_interactions"
    /\ idx <= Len(query_plan.kg_interaction_checks)
    /\ \E outcome \in CallOutcomes :
        LET check == query_plan.kg_interaction_checks[idx]
        IN  EndIteration(InteractionCheckStep(ki_context, check, outcome),
                         <<<<"find_known_interactions", check>>>>, ErrorsOf(outcome))

ExecSimilarity ==
    /\ pc = "exec_similarity"
    /\ idx <= Len(query_plan.vector_similarity_nodes)
    /\ \E fetch \in CallOutcomes, search \in CallOutcomes :
        LET node_ki_id == query_plan.vector_similarity_nodes[idx]
            r == SimilarityStep(ki_context, node_ki_id, fetch, search)
        IN  EndIteration(r.ctx,
                (IF r.fetched THEN <<<<"get_node_context", node_ki_id>>>> ELSE <<>>)
                    \o (IF r.searched THEN <<<<"find_similar_concepts", node_ki_id>>>>
                        ELSE <<>>),
                (IF r.fetched THEN ErrorsOf(fetch) ELSE 0)
                    + (IF r.searched THEN ErrorsOf(search) ELSE 0))

ExecAnalogy ==
    /\ pc = "exec_analogy"
    /\ idx <= Len(query_plan.vector_analogy_edges)
    /\ \E outcome \in CallOutcomes :
        LET edge == query_plan.vector_analogy_edges[idx]
        IN  EndIteration(AnalogyStep(ki_context, edge, outcome),
                         <<<<"find_similar_concepts", edge.id>>>>, ErrorsOf(outcome))

ExecCustomQuery ==
    /\ pc = "exec_custom"
    /\ idx <= Len(query_plan.vector_queries)
    /\ \E outcome \in CustomOutcomes :
        LET vector_query == query_plan.vector_queries[idx]
        IN  EndIteration(CustomQueryStep(ki_context, vector_query, outcome),
                         IF outcome = "no_method" THEN <<>>
                         ELSE <<<<vector_query.method, vector_query.query>>>>,
                         IF outcome = "no_method" THEN 1 ELSE ErrorsOf(outcome))

ExecLineageTrace ==
    /\ pc = "exec_lineage"
    /\ idx <= Len(query_plan.kg_lineage_traces)
    /\ \E outcome \in CallOutcomes :
        LET node_ki_id == query_plan.kg_lineage_traces[idx]
        IN  EndIteration(LineageTraceStep(ki_context, node_ki_id, outcome),
                         <<<<"trace_influence_paths", node_ki_id>>>>, ErrorsOf(outcome))

\* a loop has run over its list: the next loop starts; after the last one the
\* function returns ki_context
ExecNextLoop ==
    /\ pc \in ExecPhases
    /\ idx > Len(PhaseList(pc, query_plan))
    /\ pc' = PhaseAfter(pc, vector_present)
    /\ idx' = 1
    /\ UNCHANGED <<graph, vector_present, communities, merged, passes, analysis,
                   query_plan, ki_context, calls, raised, logged_errors, prompt,
                   synthesis_text, result, lineage, response, other>>

NextExecute ==
    \/ ExecContextFetch
    \/ ExecInteractionCheck
    \/ ExecSimilarity
    \/ ExecAnalogy
    \/ ExecCustomQuery
    \/ ExecLineageTrace
    \/ ExecNextLoop

\* the first statement of _execute_ki_queries
NewContext == KIContext(EmptyDict, EmptyDict, EmptyDict, EmptyDict, EmptyDict)

\* Query plans for the executor alone: at most MaxLookups planned lookups
PlanContextNodes == SeqsUpTo({"k:b", "k:d"}, MaxLookups)
PlanInteractionChecks == SeqsUpTo({<<"k:b", "k:d">>}, MaxLookups)
PlanSimilarityNodes == SeqsUpTo({"k:b"}, MaxLookups)
PlanAnalogyEdges == SeqsUpTo({EdgeData("e1", "b", "d", "IS_ANALOGOUS_TO")}, 1)
PlanLineageTraces == SeqsUpTo({"k:b", "k:d"}, MaxLookups)
PlanVectorQueries ==
    SeqsUpTo({[method |-> "find_similar", query |-> <<"B">>, n_results |-> 5]}, 1)

ExecutePlans ==
    {KIQueryPlan(t[1], t[2], t[3], t[4], t[5], t[6]) :
        t \in {u \in PlanContextNodes \X PlanInteractionChecks \X PlanSimilarityNodes
                        \X PlanAnalogyEdges \X PlanLineageTraces \X PlanVectorQueries :
                  Len(u[1]) + Len(u[2]) + Len(u[3]) + Len(u[4]) + Len(u[5]) + Len(u[6])
                      <= MaxLookups}}

InitExecute ==
    /\ pc = "exec_context"
    /\ graph = GraphStructure(<<>>, <<>>)
    /\ vector_present \in BOOLEAN
    /\ communities = <<>>
    /\ merged = FALSE
    /\ passes = 0
    /\ analysis = EmptyAnalysis
    /\ query_plan \in ExecutePlans
    /\ ki_context = NewContext
    /\ idx = 1
    /\ calls = <<>>
    /\ raised = FALSE
    /\ logged_errors = 0
    /\ prompt = NoPrompt
    /\ synthesis_text = NoText
    /\ result = NoResult
    /\ lineage = NoLineage
    /\ response = NoResponse
    /\ other = NoFrame

SpecExecute == InitExecute /\ [][NextExecute]_vars

----------------------------------------------------------------------------
(* SynthesisCore.synthesize as a state machine: analyze, plan, execute,
   compile the prompt, generate, parse *)

\* 2. query_plan = self._plan_ki_queries(graph, analysis)
PlanQueries ==
    /\ pc = "plan"
    /\ query_plan' \in QueryPlans(graph, analysis)
    /\ ki_context' = NewContext
    /\ idx' = 1
    /\ pc' = "exec_context"
    /\ UNCHANGED <<graph, vector_present, communities, merged, passes, analysis,
                   calls, raised, logged_errors, prompt, synthesis_text, result,
                   lineage, response, other>>

\* 4. prompt = self._construct_llm_prompt(graph, analysis, ki_context)
ConstructPrompt ==
    /\ pc = "prompt"
    /\ prompt' = LLMPrompt(graph, analysis, ki_context)
    /\ pc' = "generate"
    /\ UNCHANGED <<graph, vector_present, communities, merged, passes, analysis,
                   query_plan, ki_context, idx, calls, raised, logged_errors,
                   synthesis_text, result, lineage, response, other>>

\* 5. synthesis_text = await self.llm_client.agenerate_text(prompt): the client
\* hands back a text
GenerateText ==
    /\ pc = "generate"
    /\ \E text \in GeneratedTexts :
        /\ synthesis_text' = text
        /\ calls' = Append(calls, <<"agenerate_text", prompt>>)
    /\ pc' = "parse"
    /\ UNCHANGED <<graph, vector_present, communities, merged, passes, analysis,
                   query_plan, ki_context, idx, raised, logged_errors, prompt, result,
                   lineage, response, other>>

\* 5. a client that raises: the except clause of synthesize returns (None, message)
GenerateRaises ==
    /\ pc = "generate"
    /\ calls' = Append(calls, <<"agenerate_text", prompt>>)
    /\ logged_errors' = logged_errors + 1
    /\ result' = [output |-> NoOutput,
                  error |-> "An unexpected error occurred during synthesis"]
    /\ pc' = "done"
    /\ UNCHANGED <<graph, vector_present, communities, merged, passes, analysis,
                   query_plan, ki_context, idx, raised, prompt, synthesis_text,
                   lineage, response, other>>

\* 6., 7. the text is parsed and the SynthesisOutput returned with no error
ParseAndReturn ==
    /\ pc = "parse"
    /\ result' = [output |-> SynthesisOutput("synthesis-id",
                                             ParseLLMOutput(synthesis_text),
                                             [i \in 1..Len(graph.nodes) |->
                                                 graph.nodes[i].id]),
                  error |-> NoValue]
    /\ pc' = "done"
    /\ UNCHANGED <<graph, vector_present, communities, merged, passes, analysis,
                   query_plan, ki_context, idx, calls, raised, logged_errors, prompt,
                   synthesis_text, lineage, response, other>>

Init ==
    /\ pc = "analyze"
    /\ graph \in SynthesisGraphs
    /\ vector_present \in BOOLEAN
    /\ communities = <<>>
    /\ merged = FALSE
    /\ passes = 0
    /\ analysis = EmptyAnalysis
    /\ query_plan = EmptyPlan
    /\ ki_context = EmptyContext
    /\ idx = 0
    /\ calls = <<>>
    /\ raised = FALSE
    /\ logged_errors = 0
    /\ prompt = NoPrompt
    /\ synthesis_text = NoText
    /\ result = NoResult
    /\ lineage = NoLineage
    /\ response = NoResponse
    /\ other = NoFrame

Next ==
    \/ AnalyzeEdges
    \/ CommunityPass
    \/ AnalyzeFinish
    \/ PlanQueries
    \/ ExecContextFetch
    \/ ExecInteractionCheck
    \/ ExecSimilarity
    \/ ExecAnalogy
    \/ ExecCustomQuery
    \/ ExecLineageTrace
    \/ ExecNextLoop
    \/ ConstructPrompt
    \/ GenerateText
    \/ GenerateRaises
    \/ ParseAndReturn

Spec == Init /\ [][Next]_vars

\* _parse_llm_output alone: the text is any of the texts above
InitParse ==
    /\ pc = "parse"
    /\ graph \in SynthesisGraphs
    /\ vector_present = FALSE
    /\ communities = <<>>
    /\ merged = FALSE
    /\ passes = 0
    /\ analysis = EmptyAnalysis
    /\ query_plan = EmptyPlan
    /\ ki_context = EmptyContext
    /\ idx = 0
    /\ calls = <<>>
    /\ raised = FALSE
    /\ logged_errors = 0
    /\ prompt = NoPrompt
    /\ synthesis_text \in HeaderTexts \cup GeneratedTexts
    /\ result = NoResult
    /\ lineage = NoLineage
    /\ response = NoResponse
    /\ other = NoFrame

SpecParse == InitParse /\ [][ParseAndReturn]_vars

----------------------------------------------------------------------------
(* The synthesis endpoint: orchestrate_synthesis_and_lineage *)

\* what `await synthesis_core.synthesize(graph=graph_input)` evaluates to: the
\* tuple (output, error_message) of the return statements of synthesize
SynthesizeReturn(r) == <<r.output, r.error>>

\* synthesis_output, synthesis_node, error_message = ...: a ValueError unless
\* the tuple has three values
UnpackRaises(t) == Len(t) # 3

\* Step 1 of the endpoint after synthesize has returned: the tuple is unpacked
\* into three names; `except Exception` turns the ValueError into the answer
\* 500. With three values, an error message or a missing output or node is the
\* answer 500 too, else Step 2 calls trace_lineage.
EndpointRespond ==
    /\ pc = "done"
    /\ LET returned == SynthesizeReturn(result)
       IN  IF UnpackRaises(returned)
           THEN /\ response' =
                      [status |-> 500,
                       detail |-> "An unexpected error occurred during synthesis generation."]
                /\ logged_errors' = logged_errors + 1
                /\ pc' = "responded"
                /\ UNCHANGED <<idx, lineage>>
           ELSE IF returned[3] # NoValue \/ returned[1] = NoOutput \/ returned[2] = NoValue
           THEN /\ response' = [status |-> 500, detail |-> "Synthesis generation failed"]
                /\ logged_errors' = logged_errors + 1
                /\ pc' = "responded"
                /\ UNCHANGED <<idx, lineage>>
           ELSE /\ lineage' = LineageState(returned[1])
                /\ idx' = 1
                /\ pc' = "lineage_parents"
                /\ UNCHANGED <<response, logged_errors>>
    /\ UNCHANGED <<graph, vector_present, communities, merged, passes, analysis,
                   query_plan, ki_context, calls, raised, prompt, synthesis_text,
                   result, other>>

InitEndpoint ==
    /\ pc = "analyze"
    /\ graph \in SynthesisGraphs \cup EndpointGraphs
    /\ vector_present \in BOOLEAN
    /\ communities = <<>>
    /\ merged = FALSE
    /\ passes = 0
    /\ analysis = EmptyAnalysis
    /\ query_plan = EmptyPlan
    /\ ki_context = EmptyContext
    /\ idx = 0
    /\ calls = <<>>
    /\ raised = FALSE
    /\ logged_errors = 0
    /\ prompt = NoPrompt
    /\ synthesis_text = NoText
    /\ result = NoResult
    /\ lineage = NoLineage
    /\ response = NoResponse
    /\ other = NoFrame

NextEndpoint ==
    \/ AnalyzeEdges
    \/ CommunityPass
    \/ AnalyzeFinish
    \/ PlanQueries
    \/ ExecContextFetch
    \/ ExecInteractionCheck
    \/ ExecSimilarity
    \/ ExecAnalogy
    \/ ExecCustomQuery
    \/ ExecLineageTrace
    \/ ExecNextLoop
    \/ ConstructPrompt
    \/ GenerateText
    \/ GenerateRaises
    \/ ParseAndReturn
    \/ EndpointRespond

SpecEndpoint == InitEndpoint /\ [][NextEndpoint]_vars

----------------------------------------------------------------------------
(* Two requests on the one SynthesisCore that get_synthesis_core caches *)

\* A coroutine of synthesize keeps its data in its own frame: graph, analysis,
\* query_plan, ki_context, the prompt and the answer are parameters and local
\* variables. The instance holds kg_interface, vector_interface and
\* llm_client, assigned in __init__ and never again. The log of collaborator
\* calls and the logger are shared.
CurrentFrame(request) ==
    [request |-> request, pc |-> pc, graph |-> graph, communities |-> communities,
     merged |-> merged, passes |-> passes, analysis |-> analysis,
     query_plan |-> query_plan, ki_context |-> ki_context, idx |-> idx,
     raised |-> raised, prompt |-> prompt, synthesis_text |-> synthesis_text,
     result |-> result]

NewFrame(request, g) ==
    [request |-> request, pc |-> "analyze", graph |-> g, communities |-> <<>>,
     merged |-> FALSE, passes |-> 0, analysis |-> EmptyAnalysis,
     query_plan |-> EmptyPlan, ki_context |-> EmptyContext, idx |-> 0,
     raised |-> FALSE, prompt |-> NoPrompt, synthesis_text |-> NoText,
     result |-> NoResult]

\* the context a coroutine finds when it resumes, had `ki_context` been an
\* attribute of the instance: the one the coroutine that ran last left there
ResumedContext_OnInstance(frame, current) == current

\* the context a coroutine finds when it resumes: the dictionary it created
\* itself in _execute_ki_queries, a local variable
ResumedContext(frame, current) == frame.ki_context

\* the coroutine is at an await: of a knowledge-graph lookup, or of the LLM
AtAwait ==
    \/ pc = "exec_context" /\ idx <= Len(query_plan.kg_context_nodes)
    \/ pc = "exec_interactions" /\ idx <= Len(query_plan.kg_interaction_checks)
    \/ pc = "generate"

\* the event loop suspends the running coroutine at its await, or leaves it
\* once it has returned, and resumes the other one
SwitchRequest ==
    /\ other # NoFrame
    /\ other.pc # "done"
    /\ AtAwait \/ pc = "done"
    /\ other' = CurrentFrame(3 - other.request)
    /\ pc' = other.pc
    /\ graph' = other.graph
    /\ communities' = other.communities
    /\ merged' = other.merged
    /\ passes' = other.passes
    /\ analysis' = other.analysis
    /\ query_plan' = other.query_plan
    /\ ki_context' = ResumedContext(other, ki_context)
    /\ idx' = other.idx
    /\ raised' = other.raised
    /\ prompt' = other.prompt
    /\ synthesis_text' = other.synthesis_text
    /\ result' = other.result
    /\ UNCHANGED <<vector_present, calls, logged_errors, lineage, response>>

\* Two graphs with no identifier in common: the first asks for two context
\* fetches and an interaction check, the second for a context fetch and a
\* lineage trace.
ConcurrentGraphs ==
    <<GraphStructure(<<PoolNode(2), PoolNode(4)>>,
                     <<EdgeData(EdgeIds[1], "b", "d", "OPPOSES")>>),
      GraphStructure(<<PoolNode(5), PoolNode(1)>>,
                     <<EdgeData(EdgeIds[1], "e", "a", "DERIVES_FROM")>>)>>

\* get_vector_db_interface returns None: the core has no vector store
InitConcurrent ==
    /\ pc = "analyze"
    /\ graph = ConcurrentGraphs[1]
    /\ vector_present = FALSE
    /\ communities = <<>>
    /\ merged = FALSE
    /\ passes = 0
    /\ analysis = EmptyAnalysis
    /\ query_plan = EmptyPlan
    /\ ki_context = EmptyContext
    /\ idx = 0
    /\ calls = <<>>
    /\ raised = FALSE
    /\ logged_errors = 0
    /\ prompt = NoPrompt
    /\ synthesis_text = NoText
    /\ result = NoResult
    /\ lineage = NoLineage
    /\ response = NoResponse
    /\ other = NewFrame(2, ConcurrentGraphs[2])

NextConcurrent ==
    \/ AnalyzeEdges
    \/ CommunityPass
    \/ AnalyzeFinish
    \/ PlanQueries
    \/ ExecContextFetch
    \/ ExecInteractionCheck
    \/ ExecLineageTrace
    \/ ExecNextLoop
    \/ ConstructPrompt
    \/ GenerateText
    \/ GenerateRaises
    \/ ParseAndReturn
    \/ SwitchRequest

SpecConcurrent == InitConcurrent /\ [][NextConcurrent]_vars

----------------------------------------------------------------------------
(* The analyzer and the planner alone: _analyze_graph, then _plan_ki_queries *)

InitPlan ==
    /\ pc = "analyze"
    /\ graph \in PlanGraphs
    /\ vector_present = FALSE
    /\ communities = <<>>
    /\ merged = FALSE
    /\ passes = 0
    /\ analysis = EmptyAnalysis
    /\ query_plan = EmptyPlan
    /\ ki_context = EmptyContext
    /\ idx = 0
    /\ calls = <<>>
    /\ raised = FALSE
    /\ logged_errors = 0
    /\ prompt = NoPrompt
    /\ synthesis_text = NoText
    /\ result = NoResult
    /\ lineage = NoLineage
    /\ response = NoResponse
    /\ other = NoFrame

NextPlan == AnalyzeEdges \/ CommunityPass \/ AnalyzeFinish \/ PlanQueries

SpecPlan == InitPlan /\ [][NextPlan]_vars

----------------------------------------------------------------------------
(* The prompt compiler alone: _construct_llm_prompt called twice with the same
   three arguments *)

\* the second call, with the arguments of the first
ConstructPromptAgain ==
    /\ pc = "generate"
    /\ prompt' = LLMPrompt(graph, analysis, ki_context)
    /\ pc' = "compiled"
    /\ UNCHANGED <<graph, vector_present, communities, merged, passes, analysis,
                   query_plan, ki_context, idx, calls, raised, logged_errors,
                   synthesis_text, result, lineage, response, other>>

InitCompile ==
    /\ pc = "prompt"
    /\ graph \in CompileGraphs
    /\ vector_present = TRUE
    /\ communities = IdentifyCommunities(graph)
    /\ merged = FALSE
    /\ passes = 0
    /\ analysis = GraphAnalysis(graph, communities)
    /\ query_plan = EmptyPlan
    /\ ki_context \in CompileContexts
    /\ idx = 1
    /\ calls = <<>>
    /\ raised = FALSE
    /\ logged_errors = 0
    /\ prompt = NoPrompt
    /\ synthesis_text = NoText
    /\ result = NoResult
    /\ lineage = NoLineage
    /\ response = NoResponse
    /\ other = NoFrame

NextCompile == ConstructPrompt \/ ConstructPromptAgain

SpecCompile == InitCompile /\ [][NextCompile]_vars

----------------------------------------------------------------------------
(* LineageMapper.trace_lineage as a state machine *)

LineageUnchanged ==
    UNCHANGED <<graph, vector_present, communities, merged, passes, analysis,
                query_plan, ki_context, raised, prompt, synthesis_text, result,
                response, other>>

\* Step 1: one parent identifier of the synthesis output
LineageDirectParent ==
    /\ pc = "lineage_parents"
    /\ idx <= Len(lineage.synthesis_output.parent_node_ids)
    /\ lineage' = DirectParentStep(graph, lineage,
                                   lineage.synthesis_output.parent_node_ids[idx])
    /\ idx' = idx + 1
    /\ UNCHANGED <<pc, calls, logged_errors>>
    /\ LineageUnchanged

\* Step 2 with no seed: the deep trace is skipped
LineageNoSeeds ==
    /\ pc = "lineage_parents"
    /\ idx > Len(lineage.synthesis_output.parent_node_ids)
    /\ lineage.deep_lineage_seed_ids = {}
    /\ pc' = "lineage_report"
    /\ UNCHANGED <<lineage, idx, calls, logged_errors>>
    /\ LineageUnchanged

\* Step 2 with seeds: naming the relationships of the combined query raises
\* AttributeError, and the handler goes on with the queries seed by seed
LineageDeepTrace ==
    /\ pc = "lineage_parents"
    /\ idx > Len(lineage.synthesis_output.parent_node_ids)
    /\ lineage.deep_lineage_seed_ids # {}
    /\ InfluenceRelsRaise
    /\ lineage' = [lineage EXCEPT !.seeds_left = lineage.deep_lineage_seed_ids]
    /\ pc' = "lineage_fallback"
    /\ UNCHANGED <<idx, calls, logged_errors>>
    /\ LineageUnchanged

ThinkerNode == [id |-> "t1", ki_id |-> "k:t", label |-> "T", type |-> "THINKER"]

\* what find_related_nodes does for one seed: the interface has no such method,
\* the call raises, it returns None, or it returns a list of nodes
FindRelatedOutcomes == {"no_method", "raise", "none", "data"}

\* FallbackQueryStep as it would be with no except clause around the call
FallbackQueryStep_NoExcept(lin, seed, outcome) ==
    IF outcome \in {"no_method", "raise"} THEN Escaped
    ELSE [lin EXCEPT
             !.seeds_left = @ \ {seed},
             !.thinker_results_raw =
                 IF outcome = "data" THEN @ \o <<ThinkerNode>> ELSE @]

\* one iteration of the loop over seed_list: `except Exception as loop_error`
\* takes the AttributeError of a missing method as well as an error of the call
FallbackQueryStep(lin, seed, outcome) ==
    [lin EXCEPT
        !.seeds_left = @ \ {seed},
        !.thinker_results_raw =
            IF outcome = "data" THEN @ \o <<ThinkerNode>> ELSE @]

\* ThinkerQuery as it would be with no restriction on the type of the neighbours
ThinkerQuery_AnyNeighbour(seed) ==
    <<"find_related_nodes", seed,
      [relationship_types |-> <<"INFLUENCED_BY">>, neighbor_types |-> <<>>,
       limit |-> limit_per_type]>>

\* the call of the fallback for one seed, with the arguments of thinker_config
ThinkerQuery(seed) ==
    <<"find_related_nodes", seed,
      [relationship_types |-> <<"INFLUENCED_BY">>, neighbor_types |-> <<"THINKER">>,
       limit |-> limit_per_type]>>

\* the fallback: find_related_nodes for one seed; list(set) fixes no order
LineageFallbackQuery ==
    /\ pc = "lineage_fallback"
    /\ \E seed \in lineage.seeds_left, outcome \in FindRelatedOutcomes :
        LET r == FallbackQueryStep(lineage, seed, outcome)
        IN  /\ calls' = IF outcome = "no_method" THEN calls
                        ELSE Append(calls, ThinkerQuery(seed))
            /\ logged_errors' = logged_errors
                                  + (IF outcome = "no_method" THEN 1 ELSE ErrorsOf(outcome))
            /\ IF r = Escaped
               THEN /\ raised' = TRUE
                    /\ pc' = "raised"
                    /\ UNCHANGED lineage
               ELSE /\ lineage' = r
                    /\ UNCHANGED <<pc, raised>>
    /\ UNCHANGED <<graph, vector_present, communities, merged, passes, analysis,
                   query_plan, ki_context, idx, prompt, synthesis_text, result,
                   response, other>>

\* the end of the fallback: the thinkers found are formatted
LineageFallbackDone ==
    /\ pc = "lineage_fallback"
    /\ lineage.seeds_left = {}
    /\ lineage' = [lineage EXCEPT !.key_thinkers = FallbackThinkers(lineage)]
    /\ pc' = "lineage_report"
    /\ UNCHANGED <<idx, calls, logged_errors>>
    /\ LineageUnchanged

\* the report is built and returned
LineageBuildReport ==
    /\ pc = "lineage_report"
    /\ lineage' = [lineage EXCEPT
                      !.report = LineageReport(lineage.synthesis_output.id,
                                               lineage.direct_parents,
                                               lineage.key_thinkers,
                                               <<>>)]
    /\ pc' = "lineage_done"
    /\ UNCHANGED <<idx, calls, logged_errors>>
    /\ LineageUnchanged

InitLineage ==
    /\ pc = "lineage_parents"
    /\ graph \in LineageGraphs
    /\ vector_present = FALSE
    /\ communities = <<>>
    /\ merged = FALSE
    /\ passes = 0
    /\ analysis = EmptyAnalysis
    /\ query_plan = EmptyPlan
    /\ ki_context = EmptyContext
    /\ idx = 1
    /\ calls = <<>>
    /\ raised = FALSE
    /\ logged_errors = 0
    /\ prompt = NoPrompt
    /\ synthesis_text = NoText
    /\ result = NoResult
    /\ response = NoResponse
    /\ other = NoFrame
    /\ \E id \in SynthesisIds, parent_node_ids \in SeqsUpTo(ParentIds, MaxParents) :
          lineage = LineageState(SynthesisOutput(id, ParseLLMOutput(HeaderText),
                                                 parent_node_ids))

NextLineage ==
    \/ LineageDirectParent
    \/ LineageNoSeeds
    \/ LineageDeepTrace
    \/ LineageFallbackQuery
    \/ LineageFallbackDone
    \/ LineageBuildReport

SpecLineage == InitLineage /\ [][NextLineage]_vars

----------------------------------------------------------------------------
(* Claims about the analyzer *)

EdgesReferenceNodes(g) ==
    \A k \in 1..Len(g.edges) :
        g.edges[k].source \in NodeIds(g) /\ g.edges[k].target \in NodeIds(g)

\* x and y are the two ends of some edge, in either direction
Adjacent(g, x, y) ==
    \E k \in 1..Len(g.edges) :
        \/ g.edges[k].source = x /\ g.edges[k].target = y
        \/ g.edges[k].source = y /\ g.edges[k].target = x

RECURSIVE ReachableFrom(_, _)
\* the nodes joined to a node of S by a path of edges
ReachableFrom(g, S) ==
    LET more == S \cup {y \in NodeIds(g) : \E x \in S : Adjacent(g, x, y)}
    IN  IF more = S THEN S ELSE ReachableFrom(g, more)

CommunitiesOf(comms, x) == {i \in 1..Len(comms) : x \in Range(comms[i])}

Analyzed == pc = "plan" /\ analysis # EmptyAnalysis

\* C1: when every edge references nodes of the graph, the community partition
\* is the partition into undirected connected components: every node is in
\* exactly one community, once, and two nodes share a community exactly when a
\* path of edges, of any direction and type, joins them.
C1_CommunitiesAreComponents ==
    (Analyzed /\ EdgesReferenceNodes(graph)) =>
        LET comms == analysis.node_communities
        IN  /\ \A x \in NodeIds(graph) :
                /\ Cardinality(CommunitiesOf(comms, x)) = 1
                /\ \A i \in CommunitiesOf(comms, x) :
                        Cardinality({k \in 1..Len(comms[i]) : comms[i][k] = x}) = 1
            /\ \A i \in 1..Len(comms) : Range(comms[i]) \subseteq NodeIds(graph)
            /\ \A x, y \in NodeIds(graph) :
                (CommunitiesOf(comms, x) = CommunitiesOf(comms, y))
                    <=> (y \in ReachableFrom(graph, {x}))

\* A-B and C-B joined by edges of different types, both pointing at B: one
\* community holds A, B and C
C1_Witness ==
    /\ Analyzed /\ EdgesReferenceNodes(graph)
    /\ Len(graph.edges) = 2
    /\ graph.edges[1].target = graph.edges[2].target
    /\ graph.edges[1].source # graph.edges[2].source
    /\ graph.edges[1].source # graph.edges[1].target
    /\ graph.edges[2].source # graph.edges[2].target
    /\ graph.edges[1].semantic_type # graph.edges[2].semantic_type
    /\ \E i \in 1..Len(analysis.node_communities) :
            Len(analysis.node_communities[i]) = 3

\* C2: a graph of N nodes and no edge has min(3, N) central nodes, all of
\* degree 0, and N singleton communities.
C2_EdgelessGraph ==
    (Analyzed /\ Len(graph.edges) = 0) =>
        /\ Len(analysis.central_nodes) = Min(3, Len(graph.nodes))
        /\ \A i \in 1..Len(analysis.central_nodes) : analysis.central_nodes[i][2] = 0
        /\ Len(analysis.node_communities) = Len(graph.nodes)
        /\ \A i \in 1..Len(analysis.node_communities) :
                Len(analysis.node_communities[i]) = 1
        /\ {analysis.node_communities[i][1] : i \in 1..Len(analysis.node_communities)}
                = NodeIds(graph)

\* four nodes, no edge: three central nodes and four communities
C2_Witness ==
    /\ Analyzed /\ Len(graph.edges) = 0
    /\ Len(graph.nodes) > 3
    /\ Len(analysis.central_nodes) = 3
    /\ Len(analysis.node_communities) = Len(graph.nodes)

\* the sum of the five counts intent inference uses
CategorySum(counts) == SumOver(Range(IntentCategories), counts)

\* the types the five categories name, as ki_ontology.py and the analyzer list them
CategorizedTypes ==
    {"CONTRADICTS_CLAIM", "OPPOSES", "REFUTES", "GENERATES_PARADOX_FROM",
     "CHALLENGES_PREMISE_OF", "SYNTHESIZES_WITH", "RESOLVES_TENSION_BETWEEN",
     "RESONATES_WITH", "IS_METAPHOR_FOR", "IS_ANALOGOUS_TO", "SYMBOLIZES",
     "IS_COMPONENT_OF", "IS_AXIOM_FOR", "DERIVES_FROM", "ENABLES", "CAUSES",
     "INFLUENCES", "AMPLIFIES"}

\* C3: the five category counts sum to at most the number of edges: the sum is
\* the number of edges of a categorized type, so that an edge is counted in at
\* most one category and an edge of an uncategorized type in none.
C3_CategorySumBounded ==
    Analyzed =>
        /\ CategorySum(analysis.category_counts) <= analysis.edge_count
        /\ analysis.edge_count = Len(graph.edges)
        /\ CategorySum(analysis.category_counts)
                = Cardinality({k \in 1..Len(graph.edges) :
                                    graph.edges[k].semantic_type \in CategorizedTypes})

\* a framework edge and an uncategorized edge: the counts sum to 1 of 2 edges
C3_Witness ==
    /\ Analyzed
    /\ Len(graph.edges) = 2
    /\ graph.edges[1].semantic_type = "DERIVES_FROM"
    /\ graph.edges[2].semantic_type = "RELATED_TO"
    /\ analysis.category_counts["framework_building"] = 1
    /\ CategorySum(analysis.category_counts) = 1

----------------------------------------------------------------------------
(* Claims about the executor *)

\* how many calls of a method with an argument were issued
CallCount(method, argument) ==
    Cardinality({i \in 1..Len(calls) : calls[i][1] = method /\ calls[i][2] = argument})

\* how often an entry stands in a list of the plan
PlannedCount(list, entry) ==
    Cardinality({i \in 1..Len(list) : list[i] = entry})

Returned == pc = "prompt"

FiveSections ==
    {"kg_node_contexts", "kg_interactions", "vector_similarities", "vector_analogies",
     "kg_lineage_paths"}

\* C4: whatever the plan is and whatever each call of the knowledge graph and
\* of the vector store does (raise, return nothing, return data),
\* _execute_ki_queries raises nothing, and the context it returns has all
\* five sections.
C4_ExecuteNeverRaises ==
    /\ ~raised
    /\ pc # "raised"
    /\ Returned => DOMAIN ki_context = FiveSections

\* the function returned after calls raised (their errors are logged), the
\* planned lineage traces stored nothing, and a context fetch stored data
C4_Witness ==
    /\ Returned
    /\ ~raised
    /\ DOMAIN ki_context = FiveSections
    /\ logged_errors > 0
    /\ query_plan.kg_lineage_traces # <<>>
    /\ ki_context.kg_lineage_paths = EmptyDict
    /\ ki_context.kg_node_contexts # EmptyDict

\* C5: when the function returns, every planned context fetch, interaction
\* check, similarity search, analogy search and lineage trace has been
\* attempted, whatever the other lookups did (the searches of the vector store
\* when there is a vector store).
C5_EveryLookupAttempted ==
    Returned =>
        /\ \A id \in Range(query_plan.kg_context_nodes) :
              CallCount("get_node_context", id)
                  >= PlannedCount(query_plan.kg_context_nodes, id)
        /\ \A check \in Range(query_plan.kg_interaction_checks) :
              CallCount("find_known_interactions", check)
                  >= PlannedCount(query_plan.kg_interaction_checks, check)
        /\ \A id \in Range(query_plan.kg_lineage_traces) :
              CallCount("trace_influence_paths", id)
                  >= PlannedCount(query_plan.kg_lineage_traces, id)
        /\ vector_present =>
              /\ \A id \in Range(query_plan.vector_similarity_nodes) :
                    CallCount("find_similar_concepts", id)
                        >= PlannedCount(query_plan.vector_similarity_nodes, id)
              /\ \A edge \in Range(query_plan.vector_analogy_edges) :
                    CallCount("find_similar_concepts", edge.id)
                        >= PlannedCount(query_plan.vector_analogy_edges, edge)

\* the other half of C5: an iteration leaves what the earlier ones stored
StoredResultsKept ==
    [][\A section \in FiveSections :
          \A key \in Range(DictKeys(ki_context[section])) :
              /\ DictHas(ki_context'[section], key)
              /\ DictGet(ki_context'[section], key) = DictGet(ki_context[section], key)]_vars

----------------------------------------------------------------------------
(* Claims about a whole request *)

\* _execute_ki_queries has begun, its context exists
ContextExists == pc \in ExecPhases \cup {"prompt", "generate", "parse", "done"}

\* _execute_ki_queries has returned
Executed == pc \in {"prompt", "generate", "parse", "done"}

VectorMethods == {"find_similar_concepts", "find_similar", "find_analogies"}

GenerationCalls == Cardinality({i \in 1..Len(calls) : calls[i][1] = "agenerate_text"})

\* C6: without a vector store, for every graph: the similarities and the
\* analogies of the context stay empty and the vector store is never called;
\* the prompt has neither the heading of the similar concepts nor that of the
\* analogies; every planned context fetch, interaction check and lineage trace
\* of the knowledge graph is issued; and a request whose generation returns a
\* text of a synthesis ends with a SynthesisOutput of status success and no
\* error.
C6_VectorStoreAbsent ==
    ~vector_present =>
        /\ ContextExists =>
              /\ ki_context.vector_similarities = EmptyDict
              /\ ki_context.vector_analogies = EmptyDict
        /\ \A i \in 1..Len(calls) : calls[i][1] \notin VectorMethods
        /\ prompt # NoPrompt =>
              /\ "### Similar Concepts:" \notin Range(prompt.knowledge_context)
              /\ "### Analogies:" \notin Range(prompt.knowledge_context)
        /\ Executed =>
              /\ \A id \in Range(query_plan.kg_context_nodes) :
                    CallCount("get_node_context", id)
                        = PlannedCount(query_plan.kg_context_nodes, id)
              /\ \A check \in Range(query_plan.kg_interaction_checks) :
                    CallCount("find_known_interactions", check)
                        = PlannedCount(query_plan.kg_interaction_checks, check)
              /\ \A id \in Range(query_plan.kg_lineage_traces) :
                    CallCount("trace_influence_paths", id)
                        = PlannedCount(query_plan.kg_lineage_traces, id)
        /\ (pc = "done" /\ synthesis_text \in {HeaderText, PlainText}) =>
              /\ result.error = NoValue
              /\ result.output # NoOutput
              /\ result.output.status = "success"

\* a request without vector store whose plan has similarity nodes, an analogy
\* edge and custom queries has ended in success, with contexts of the
\* knowledge graph in the prompt
C6_Witness ==
    /\ ~vector_present
    /\ pc = "done"
    /\ synthesis_text = HeaderText
    /\ result.output # NoOutput
    /\ result.output.status = "success"
    /\ query_plan.vector_similarity_nodes # <<>>
    /\ query_plan.vector_analogy_edges # <<>>
    /\ query_plan.vector_queries # <<>>
    /\ CallCount("get_node_context", "k:b") = 1
    /\ prompt.knowledge_context = <<"### Node Contexts:">>

\* C7: a generation that raises, hands back the text of an error, or hands
\* back the empty text ends the request with an error and no SynthesisOutput,
\* after exactly one call of the generation.
C7_GenerationFailureReported ==
    (pc = "done" /\ synthesis_text \in {NoText, ErrorText, EmptyText}) =>
        /\ result.output = NoOutput
        /\ result.error # NoValue
        /\ GenerationCalls = 1

\* C8: a graph with an edge whose source or target is no node of the graph is
\* rejected before the analysis: no stage of synthesize runs for it, and the
\* request ends with an error.
C8_UnknownEndpointRejected ==
    ~EdgesReferenceNodes(graph) =>
        /\ pc \in {"analyze", "done"}
        /\ analysis = EmptyAnalysis
        /\ query_plan = EmptyPlan
        /\ calls = <<>>
        /\ prompt = NoPrompt
        /\ pc = "done" => (result.output = NoOutput /\ result.error # NoValue)

\* what the code does with such a graph: every stage runs and the request
\* ends in success
UnknownEndpointSucceeds ==
    /\ ~EdgesReferenceNodes(graph)
    /\ pc = "done"
    /\ analysis # EmptyAnalysis
    /\ GenerationCalls = 1
    /\ result.output # NoOutput
    /\ result.output.status = "success"

\* what the code does with the text of an error: a SynthesisOutput of status
\* success named after it
ErrorTextSucceeds ==
    /\ pc = "done"
    /\ synthesis_text = ErrorText
    /\ result.error = NoValue
    /\ result.output # NoOutput
    /\ result.output.status = "success"
    /\ result.output.name = ErrorText[1]

----------------------------------------------------------------------------
(* Claims about the lineage *)

StepOneDone == pc \in {"lineage_fallback", "lineage_report", "lineage_done"}

ParentIdsOf(lin) == lin.synthesis_output.parent_node_ids

\* the positions of the parent identifiers that are the ki_id of a node
MatchedParents(g, lin) ==
    {i \in 1..Len(ParentIdsOf(lin)) : KiMapHas(g, ParentIdsOf(lin)[i])}

\* C9: in the report, every parent identifier that is the ki_id of a node of
\* the generating graph has a direct-parent item with that identifier and the
\* connection "Direct Parent", and direct_parents has exactly one item for
\* each such parent.
C9_MatchedParentsListed ==
    pc = "lineage_done" =>
        /\ Len(lineage.report.direct_parents)
              = Cardinality(MatchedParents(graph, lineage))
        /\ \A i \in MatchedParents(graph, lineage) :
              \E j \in 1..Len(lineage.report.direct_parents) :
                  /\ lineage.report.direct_parents[j].id = ParentIdsOf(lineage)[i]
                  /\ lineage.report.direct_parents[j].connection_via = "Direct Parent"

\* C10: once Step 1 is over, every parent identifier that is the ki_id of no
\* node of the generating graph is a seed of the deep trace, and no item of
\* direct_parents, in the mapper or in its report, carries it.
C10_UnmatchedParentSeeded ==
    StepOneDone =>
        \A i \in 1..Len(ParentIdsOf(lineage)) :
            ~KiMapHas(graph, ParentIdsOf(lineage)[i]) =>
                /\ ParentIdsOf(lineage)[i] \in lineage.deep_lineage_seed_ids
                /\ \A j \in 1..Len(lineage.direct_parents) :
                      lineage.direct_parents[j].id # ParentIdsOf(lineage)[i]
                /\ pc = "lineage_done" =>
                      \A j \in 1..Len(lineage.report.direct_parents) :
                          lineage.report.direct_parents[j].id # ParentIdsOf(lineage)[i]

\* the report is built for parents "k:b", the ki_id of a node, and "k:x", the
\* ki_id of none: "k:x" is a seed and was queried in the deep trace
C10_Witness ==
    /\ pc = "lineage_done"
    /\ ParentIdsOf(lineage) = <<"k:b", "k:x">>
    /\ KiMapHas(graph, "k:b")
    /\ ~KiMapHas(graph, "k:x")
    /\ "k:x" \in lineage.deep_lineage_seed_ids
    /\ CallCount("find_related_nodes", "k:x") = 1
    /\ lineage.report # NoReport

\* C11: trace_lineage raises nothing whatever find_related_nodes does (no such
\* method, an exception, None, nodes); the report it returns exists, carries
\* the id of the synthesis output, and has its foundational-elements lists
\* present and empty.
C11_ReportAlwaysBuilt ==
    /\ ~raised
    /\ pc # "raised"
    /\ pc = "lineage_done" =>
          /\ lineage.report # NoReport
          /\ lineage.report.synthesized_concept_id = lineage.synthesis_output.id
          /\ lineage.report.foundational_elements
                = [underlying_axioms |-> <<>>, core_metaphors |-> <<>>]

\* the report is built after a deep trace with two seeds, one whose query
\* raised and one for which the interface had no query method
C11_Witness ==
    /\ pc = "lineage_done"
    /\ Cardinality(lineage.deep_lineage_seed_ids) = 2
    /\ logged_errors = 2
    /\ Len(calls) = 1
    /\ lineage.report.synthesized_concept_id = "synthesis-2"
    /\ lineage.report.key_influencers = <<>>

----------------------------------------------------------------------------
(* Claims about the planner *)

Planned == pc = "exec_context" /\ query_plan # EmptyPlan

\* C12: for a graph none of whose edges has a type of the five priority
\* categories, the plan has no interaction check and no analogy search.
C12_NoPriorityEdgesNoChecks ==
    (Planned /\ analysis.key_semantic_edges = <<>>) =>
        /\ query_plan.kg_interaction_checks = <<>>
        /\ query_plan.vector_analogy_edges = <<>>

\* a plan for a graph of two nodes that carry a knowledge identifier and two
\* edges between them, none of a priority type
C12_Witness ==
    /\ Planned
    /\ Len(graph.edges) = 2
    /\ \A k \in 1..Len(graph.edges) :
          /\ graph.edges[k].semantic_type = "RELATED_TO"
          /\ BothEndsHaveKiId(graph, graph.edges[k])
    /\ analysis.key_semantic_edges = <<>>
    /\ query_plan.kg_interaction_checks = <<>>
    /\ query_plan.vector_analogy_edges = <<>>

\* the graph of the scenario: two nodes and one OPPOSES edge from the first to
\* the second
OpposesPair(g) ==
    /\ Len(g.nodes) = 2
    /\ Len(g.edges) = 1
    /\ g.edges[1].semantic_type = "OPPOSES"
    /\ g.edges[1].source = g.nodes[1].id
    /\ g.edges[1].target = g.nodes[2].id

\* the context-fetch half of the scenario: one target for each node that
\* carries a ki_id, none for a node that carries none
OneFetchPerKiNode(g, plan) ==
    /\ \A i \in 1..Len(g.nodes) :
          IF g.nodes[i].ki_id # NoValue
          THEN PlannedCount(plan.kg_context_nodes, g.nodes[i].ki_id) = 1
          ELSE PlannedCount(plan.kg_context_nodes, g.nodes[i].id) = 0
    /\ Len(plan.kg_context_nodes)
          = Cardinality({i \in 1..Len(g.nodes) : g.nodes[i].ki_id # NoValue})

\* C13: for two nodes joined by one OPPOSES edge, the plan has one context
\* fetch for each node that carries an external identifier, none for a node
\* without one, and no similarity-search target.
C13_OpposesPairPlan ==
    (Planned /\ OpposesPair(graph)) =>
        /\ OneFetchPerKiNode(graph, query_plan)
        /\ query_plan.vector_similarity_nodes = <<>>

\* the context-fetch half alone, for canvas identifiers without ":"
OpposesPairFetches ==
    (Planned /\ OpposesPair(graph) /\ \A i \in 1..2 : ~HasKiForm(graph.nodes[i].id)) =>
        OneFetchPerKiNode(graph, query_plan)

\* the plan for B -> D, both with a ki_id: each is fetched once, and each is a
\* similarity-search target, the intent being dialectical
OpposesPairSimilarity ==
    /\ Planned /\ OpposesPair(graph)
    /\ graph.nodes[1].ki_id = "k:b" /\ graph.nodes[2].ki_id = "k:d"
    /\ analysis.inferred_intent = "dialectical_synthesis"
    /\ OneFetchPerKiNode(graph, query_plan)
    /\ query_plan.vector_similarity_nodes = <<"k:b", "k:d">>

----------------------------------------------------------------------------
(* Claims about the prompt compiler *)

Compiled == pc \in {"generate", "compiled"} /\ prompt # NoPrompt

\* the graph has one edge, an OPPOSES edge between two of its nodes
OnlyOpposesEdge(g) ==
    /\ Len(g.edges) = 1
    /\ g.edges[1].semantic_type = "OPPOSES"
    /\ g.edges[1].source \in NodeIds(g)
    /\ g.edges[1].target \in NodeIds(g)

\* C14: for a graph whose only edge is an OPPOSES edge from node S to node T,
\* the inferred intent is dialectical_synthesis, the task of the prompt has
\* the dialectical framing, and the prompt has exactly one directive, of the
\* OPPOSES template, with the label of S as source and the label of T as target.
C14_OpposesPrompt ==
    (Compiled /\ OnlyOpposesEdge(graph)) =>
        /\ analysis.inferred_intent = "dialectical_synthesis"
        /\ prompt.task = "dialectical"
        /\ Len(prompt.directives) = 1
        /\ prompt.directives[1].template = "OPPOSES"
        /\ prompt.directives[1].source = NodeMapGet(graph, graph.edges[1].source).label
        /\ prompt.directives[1].target = NodeMapGet(graph, graph.edges[1].target).label

\* the prompt for A -> B OPPOSES in a graph of three nodes
C14_Witness ==
    /\ Compiled /\ OnlyOpposesEdge(graph)
    /\ Len(graph.nodes) = 3
    /\ graph.edges[1].source = "a" /\ graph.edges[1].target = "b"
    /\ prompt.task = "dialectical"
    /\ prompt.directives = <<[template |-> "OPPOSES", source |-> "A", target |-> "B"]>>

\* the k-th smallest member of a set of positions
NthOf(S, k) == CHOOSE x \in S : Cardinality({y \in S : y < x}) = k - 1

\* the positions of the edges that get a directive
DirectiveEdges(g) ==
    {k \in 1..Len(g.edges) : /\ g.edges[k].source \in NodeIds(g)
                             /\ g.edges[k].target \in NodeIds(g)
                             /\ g.edges[k].semantic_type \in DirectiveTypes}

\* the lines of a section of the knowledge context
SectionEntries(p, section) == SelectSeq(p.context_entries, LAMBDA e : e.section = section)

\* nodes, directives and context entries stand in the prompt in the order of
\* graph.nodes, of graph.edges and of the keys of the dicts
InInputOrder(p, g, ctx) ==
    /\ Len(p.nodes) = Len(g.nodes)
    /\ \A i \in 1..Len(g.nodes) : p.nodes[i] = g.nodes[i].label
    /\ Len(p.directives) = Cardinality(DirectiveEdges(g))
    /\ \A k \in 1..Len(p.directives) :
          LET e == g.edges[NthOf(DirectiveEdges(g), k)]
          IN  /\ p.directives[k].template = e.semantic_type
              /\ p.directives[k].source = NodeMapGet(g, e.source).label
              /\ p.directives[k].target = NodeMapGet(g, e.target).label
    /\ Len(SectionEntries(p, "Node Contexts")) = Len(ctx.kg_node_contexts)
    /\ \A i \in 1..Len(ctx.kg_node_contexts) :
          SectionEntries(p, "Node Contexts")[i].of
              = <<FirstLabel(g, DictKeys(ctx.kg_node_contexts)[i],
                             NodeKeyLabel(DictKeys(ctx.kg_node_contexts)[i]))>>
    /\ Len(SectionEntries(p, "Similar Concepts")) = Len(ctx.vector_similarities)
    /\ \A i \in 1..Len(ctx.vector_similarities) :
          LET key == DictKeys(ctx.vector_similarities)[i]
          IN  SectionEntries(p, "Similar Concepts")[i].of
                  = <<IF IsCustomKey(key) THEN [label |-> "Custom query"]
                      ELSE FirstLabel(g, key, NodeKeyLabel(key))>>

----------------------------------------------------------------------------
(* Claims about the endpoint *)

\* two nodes without a knowledge identifier joined by one RELATED_TO edge
RelatedPair(g) ==
    /\ Len(g.nodes) = 2
    /\ \A i \in 1..2 : g.nodes[i].ki_id = NoValue
    /\ Len(g.edges) = 1
    /\ g.edges[1].semantic_type = "RELATED_TO"
    /\ g.edges[1].source = g.nodes[1].id
    /\ g.edges[1].target = g.nodes[2].id

\* every collaborator did its part: no call failed, the client handed back a
\* text with a name and a description, and synthesize returned an output
CollaboratorsSucceeded ==
    /\ synthesis_text = HeaderText
    /\ result.error = NoValue
    /\ result.output.status = "success"

\* C16: for two nodes without external identifier joined by one RELATED_TO
\* edge, all collaborators succeeding, the endpoint answers 200 with a
\* synthesis_node, a synthesis_output and a lineage_report that carry one and
\* the same synthesis id.
C16_EndpointSucceeds ==
    (pc = "responded" /\ RelatedPair(graph) /\ CollaboratorsSucceeded) =>
        /\ response.status = 200
        /\ response.synthesis_output.id = response.synthesis_node.id
        /\ response.lineage_report.synthesized_concept_id = response.synthesis_output.id

\* what the endpoint does instead: whatever synthesize returned, it answers 500
EndpointAnswers500 == pc = "responded" => response.status = 500

\* the answer 500 for the graph of the claim after a successful synthesize
RelatedPairAnswered500 ==
    /\ pc = "responded" /\ RelatedPair(graph) /\ CollaboratorsSucceeded
    /\ response.status = 500


----------------------------------------------------------------------------
(* Two requests interleaved on the shared core *)

\* the analysis, the plan, the context, the prompt and the result of a frame
\* are the ones its own graph and its own lookups give
OwnData(f) ==
    /\ f.pc \notin {"analyze", "communities"} =>
        f.analysis = GraphAnalysis(f.graph, IdentifyCommunities(f.graph))
    /\ f.pc \notin {"analyze", "communities", "plan"} =>
        /\ f.query_plan \in QueryPlans(f.graph, f.analysis)
        /\ Range(DictKeys(f.ki_context.kg_node_contexts))
               \subseteq Range(f.query_plan.kg_context_nodes)
        /\ Range(DictKeys(f.ki_context.kg_interactions))
               \subseteq Range(f.query_plan.kg_interaction_checks)
        /\ Range(DictKeys(f.ki_context.kg_lineage_paths))
               \subseteq Range(f.query_plan.kg_lineage_traces)
        /\ \A k \in Range(DictKeys(f.ki_context.kg_node_contexts)) :
               \E n \in Range(f.graph.nodes) : n.ki_id = k
    /\ f.prompt # NoPrompt =>
        f.prompt = LLMPrompt(f.graph, f.analysis, f.ki_context)
    /\ (f.pc = "done" /\ f.result.output # NoOutput) =>
        f.result.output =
            SynthesisOutput("synthesis-id", ParseLLMOutput(f.synthesis_text),
                            [i \in 1..Len(f.graph.nodes) |-> f.graph.nodes[i].id])

\* C17: of two requests that interleave at their awaits on the one shared
\* SynthesisCore, each has the analysis, the plan, the context, the prompt
\* and the result that its own graph and its own lookups give, as when it
\* runs alone.
C17_RequestsIsolated ==
    other # NoFrame => (OwnData(CurrentFrame(3 - other.request)) /\ OwnData(other))

\* both requests have returned an output, for two different graphs, each
\* having stored a context of its own after the other one had started
C17_Witness ==
    /\ other # NoFrame
    /\ pc = "done" /\ other.pc = "done"
    /\ graph # other.graph
    /\ result.output # NoOutput /\ other.result.output # NoOutput
    /\ ki_context.kg_node_contexts # EmptyDict
    /\ other.ki_context.kg_node_contexts # EmptyDict
    /\ \E i \in 1..Len(calls), j \in 1..Len(calls), k \in 1..Len(calls) :
        /\ i < j /\ j < k
        /\ calls[i][1] = "get_node_context" /\ calls[i][2] \in {"k:b", "k:d"}
        /\ calls[j][1] = "get_node_context" /\ calls[j][2] = "k:e"
        /\ calls[k][1] = "get_node_context" /\ calls[k][2] \in {"k:b", "k:d"}


----------------------------------------------------------------------------
(* The target lists of the plan *)

NoDuplicates(s) == \A i \in 1..Len(s), j \in 1..Len(s) : i # j => s[i] # s[j]

\* C18: no target list of the plan (context fetches, interaction checks,
\* similarity searches, analogy searches, lineage traces) holds an entry
\* twice, also when several edges join the same pair of nodes or several
\* framework edges leave the same node.
C18_PlanListsDeduplicated ==
    Planned =>
        /\ NoDuplicates(query_plan.kg_context_nodes)
        /\ NoDuplicates(query_plan.kg_interaction_checks)
        /\ NoDuplicates(query_plan.vector_similarity_nodes)
        /\ NoDuplicates(query_plan.vector_analogy_edges)
        /\ NoDuplicates(query_plan.kg_lineage_traces)

\* the lists that are read off a set, off the central nodes, or that hold
\* edges hold no entry twice
SetBuiltListsDeduplicated ==
    Planned =>
        /\ NoDuplicates(query_plan.kg_context_nodes)
        /\ NoDuplicates(query_plan.vector_similarity_nodes)
        /\ NoDuplicates(query_plan.vector_analogy_edges)

\* two OPPOSES edges from B to D: the pair is to be checked twice
InteractionCheckTwice ==
    /\ Planned
    /\ Len(graph.edges) = 2
    /\ \A e \in Range(graph.edges) :
        e.source = "b" /\ e.target = "d" /\ e.semantic_type = "OPPOSES"
    /\ query_plan.kg_interaction_checks = <<<<"k:b", "k:d">>, <<"k:b", "k:d">>>>

\* two DERIVES_FROM edges that leave B: B is to be traced twice
LineageTraceTwice ==
    /\ Planned
    /\ Len(graph.edges) = 2
    /\ \A e \in Range(graph.edges) :
        e.source = "b" /\ e.target = "d" /\ e.semantic_type = "DERIVES_FROM"
    /\ query_plan.kg_lineage_traces = <<"k:b", "k:b">>


\* the node is one of the central nodes of the analysis
IsCentralNode(g, a, n) ==
    \E i \in 1..Len(a.central_nodes) : a.central_nodes[i][1] = CentralIdentifier(g, n.id)

\* the node is an end of an edge of one of the five priority categories
IsPriorityEndpoint(g, n) ==
    \E e \in Range(g.edges) :
        e.semantic_type \in PRIORITY_EDGE_TYPES /\ n.id \in {e.source, e.target}

\* the ki_ids of the central nodes and priority endpoints that carry a
\* well-formed ki_id
KiIdsNeedingContext(g, a) ==
    {n.ki_id : n \in {m \in Range(g.nodes) :
                        /\ HasKiForm(m.ki_id)
                        /\ IsCentralNode(g, a, m) \/ IsPriorityEndpoint(g, m)}}

\* C19: the context-fetch targets of the plan are exactly the ki_ids of the
\* nodes that are central or an end of a priority edge and that carry a
\* well-formed ki_id; the canvas id of a node without ki_id is never one.
C19_ContextTargetsAreKiIds ==
    Planned =>
        /\ Range(query_plan.kg_context_nodes) = KiIdsNeedingContext(graph, analysis)
        /\ \A n \in Range(graph.nodes) :
            n.ki_id = NoValue => n.id \notin Range(query_plan.kg_context_nodes)

\* every such ki_id is a context-fetch target, and every target is such a
\* ki_id or the canvas id of a node without ki_id
ContextTargetsCoverKiIds ==
    Planned =>
        /\ KiIdsNeedingContext(graph, analysis) \subseteq Range(query_plan.kg_context_nodes)
        /\ \A t \in Range(query_plan.kg_context_nodes) :
            \/ t \in KiIdsNeedingContext(graph, analysis)
            \/ \E n \in Range(graph.nodes) : n.ki_id = NoValue /\ n.id = t

\* the node N has no ki_id and the canvas id "n:1": the plan fetches "n:1"
LocalIdFetched ==
    /\ Planned
    /\ \E n \in Range(graph.nodes) : n.id = "n:1" /\ n.ki_id = NoValue
    /\ \E e \in Range(graph.edges) : e.source = "n:1" /\ e.semantic_type = "OPPOSES"
    /\ "n:1" \in Range(query_plan.kg_context_nodes)


\* the ki_ids of the sources of the edges of the given types
SourceKiIds(g, types) ==
    {NodeMapGet(g, e.source).ki_id :
        e \in {x \in Range(g.edges) :
                  /\ x.semantic_type \in types
                  /\ x.source \in NodeIds(g)
                  /\ NodeMapGet(g, x.source).ki_id # NoValue}}

\* C20: the lineage-trace targets of the plan are the ki_ids of the sources
\* of the edges of the framework category (component, axiom, derivation):
\* every such edge whose source carries a ki_id contributes it, and nothing
\* else is a target.
C20_LineageTargetsAreFrameworkSources ==
    Planned =>
        Range(query_plan.kg_lineage_traces) = SourceKiIds(graph, FRAMEWORK_EDGE_TYPES)

\* the targets are the sources of the DERIVES_FROM and IS_COMPONENT_OF edges
LineageTargetsAreDerivationSources ==
    Planned =>
        Range(query_plan.kg_lineage_traces) = SourceKiIds(graph, derivation_edge_types)

\* an IS_AXIOM_FOR edge leaves B, which carries a ki_id: nothing is traced
AxiomSourceNotTraced ==
    /\ Planned
    /\ Len(graph.edges) = 1
    /\ graph.edges[1].semantic_type = "IS_AXIOM_FOR"
    /\ graph.edges[1].source = "b"
    /\ "b" \in NodeIds(graph)
    /\ analysis.category_counts["framework_building"] = 1
    /\ query_plan.kg_lineage_traces = <<>>


----------------------------------------------------------------------------
(* Degrees and central nodes *)

RECURSIVE DegreeAfter(_, _, _)
\* the degree of the node id after the first k edges: an edge adds 1 for its
\* source and 1 for its target
DegreeAfter(g, id, k) ==
    IF k = 0 THEN 0
    ELSE DegreeAfter(g, id, k - 1)
            + (IF g.edges[k].source = id THEN 1 ELSE 0)
            + (IF g.edges[k].target = id THEN 1 ELSE 0)

UndirectedDegree(g, i) == DegreeAfter(g, g.nodes[i].id, Len(g.edges))

\* node i comes before node j: a higher degree, or the same and earlier
RanksBefore(g, i, j) ==
    \/ UndirectedDegree(g, i) > UndirectedDegree(g, j)
    \/ UndirectedDegree(g, i) = UndirectedDegree(g, j) /\ i < j

\* the list names the nodes at the positions p, in that order
NamesNodes(g, list, p) ==
    \A i \in 1..Len(list) :
        list[i] = <<(IF g.nodes[p[i]].ki_id # NoValue THEN g.nodes[p[i]].ki_id
                     ELSE g.nodes[p[i]].id),
                    UndirectedDegree(g, p[i])>>

\* C21: an edge adds 1 to the degree of each of its two ends; central_nodes
\* lists the min(3, N) nodes of highest degree, in non-increasing order of
\* degree and in input order among equals, each by its ki_id when it has one
\* and by its id otherwise.
C21_CentralNodesRanked ==
    Analyzed =>
        LET N == Len(graph.nodes)
            list == analysis.central_nodes
        IN  /\ Len(list) = Min(3, N)
            /\ \E p \in [1..Len(list) -> 1..N] :
                /\ NamesNodes(graph, list, p)
                /\ \A i \in 1..Len(list), j \in 1..Len(list) :
                    i < j => RanksBefore(graph, p[i], p[j])
                /\ \A m \in (1..N) \ Range(p) :
                    \A i \in 1..Len(list) : RanksBefore(graph, p[i], m)

\* four nodes, edges a -> c and b -> c: C first, then A and B, which tie, in
\* input order; D, of degree 0, is left out
C21_Witness ==
    /\ Analyzed
    /\ Len(graph.nodes) = 4
    /\ Len(graph.edges) = 2
    /\ \A e \in Range(graph.edges) : e.target = "c" /\ e.source \in {"a", "b"}
    /\ graph.edges[1].source # graph.edges[2].source
    /\ analysis.central_nodes = <<<<"c", 2>>, <<"a", 1>>, <<"k:b", 1>>>>


----------------------------------------------------------------------------
(* The inferred intent *)

\* the five categories in their order of precedence, each with its label
PrecedenceOrder ==
    <<[label |-> "dialectical_synthesis", types |-> TENSION_EDGE_TYPES],
      [label |-> "integrative_synthesis", types |-> SYNTHESIS_EDGE_TYPES],
      [label |-> "analogical_reasoning", types |-> ANALOGY_EDGE_TYPES],
      [label |-> "framework_building", types |-> FRAMEWORK_EDGE_TYPES],
      [label |-> "causal_analysis", types |-> CAUSAL_EDGE_TYPES]>>

\* the number of edges of the graph whose type is one of T
EdgesIn(g, T) == Cardinality({k \in 1..Len(g.edges) : g.edges[k].semantic_type \in T})

\* C22: the intent is the label of the category with the most edges, the
\* earliest in the order tension, synthesis, analogy, framework, causal when
\* several have the most; it is "exploration" exactly when no edge is in any
\* of the five categories.
C22_IntentIsDominantCategory ==
    Analyzed =>
        LET count(i) == EdgesIn(graph, PrecedenceOrder[i].types)
            cats == 1..Len(PrecedenceOrder)
        IN  /\ analysis.inferred_intent = "exploration" <=> \A i \in cats : count(i) = 0
            /\ \A i \in cats :
                analysis.inferred_intent = PrecedenceOrder[i].label <=>
                    /\ count(i) > 0
                    /\ \A j \in cats : count(j) <= count(i)
                    /\ \A j \in cats : j < i => count(j) < count(i)

\* a CAUSES edge, then a SYNTHESIZES_WITH edge: the two categories tie and
\* synthesis, which precedes causal, is the intent
C22_Witness ==
    /\ Analyzed
    /\ Len(graph.edges) = 2
    /\ graph.edges[1].semantic_type = "CAUSES"
    /\ graph.edges[2].semantic_type = "SYNTHESIZES_WITH"
    /\ analysis.inferred_intent = "integrative_synthesis"


----------------------------------------------------------------------------
(* The motifs of the analysis *)

\* the patterns of one type, in the order they were recorded
PatternsOfType(a, type) == SelectSeq(a.graph_patterns, LAMBDA m : m.type = type)

\* the dialectical pairs are those of the given edges, one for each, in order
PairsRecordedFor(a, edges) ==
    LET pairs == PatternsOfType(a, "dialectical_pair")
    IN  /\ Len(pairs) = Len(edges)
        /\ \A k \in 1..Len(edges) :
            pairs[k].description =
                <<edges[k].source, edges[k].semantic_type, edges[k].target>>

\* C23: one dialectical-pair motif, with the two ends of the edge, is
\* recorded for every edge of a tension type, that is for every edge of the
\* tension_edges of the analysis, and for no other edge.
C23_PairForEveryTensionEdge ==
    Analyzed => PairsRecordedFor(analysis, analysis.tension_edges)

\* the pairs are those of the edges of the types CONTRADICTS_CLAIM, OPPOSES,
\* REFUTES and CHALLENGES_PREMISE_OF
PairForListedTensionTypes ==
    Analyzed =>
        PairsRecordedFor(analysis,
            SelectSeq(graph.edges, LAMBDA e : e.semantic_type \in tension_types))

\* one edge a -> b, GENERATES_PARADOX_FROM: a tension edge and no pair
ParadoxEdgeWithoutPair ==
    /\ Analyzed
    /\ Len(graph.edges) = 1
    /\ graph.edges[1].semantic_type = "GENERATES_PARADOX_FROM"
    /\ graph.edges[1].semantic_type \in TENSION_EDGE_TYPES
    /\ analysis.tension_edges = graph.edges
    /\ PatternsOfType(analysis, "dialectical_pair") = <<>>


\* the distinct sources of the synthesis-category edges that reach the node
DistinctSynthesisSources(g, target) ==
    {g.edges[k].source : k \in {j \in 1..Len(g.edges) :
                                    /\ g.edges[j].semantic_type \in SYNTHESIS_EDGE_TYPES
                                    /\ g.edges[j].target = target}}

\* the motif is a triangle on the target: the target comes last in its nodes
TriangleOn(m, target) ==
    /\ m.type = "synthesis_triangle"
    /\ m.description[2] = target

\* C24: a synthesis-triangle motif is recorded for a node exactly when
\* synthesis-category edges reach it from two distinct sources or more, and
\* the nodes of the motif are those sources and the node.
C24_TriangleIffTwoSources ==
    Analyzed =>
        \A n \in Range(graph.nodes) :
            LET sources == DistinctSynthesisSources(graph, n.id)
                found == {k \in 1..Len(analysis.graph_patterns) :
                            TriangleOn(analysis.graph_patterns[k], n.id)}
            IN  /\ found # {} <=> Cardinality(sources) >= 2
                /\ \A k \in found :
                    Range(analysis.graph_patterns[k].description[1]) = sources

\* what is recorded: one triangle for a node that two or more edges of the
\* types SYNTHESIZES_WITH and RESOLVES_TENSION_BETWEEN reach, with the source
\* of each of those edges, in edge order
TriangleIffTwoListedEdges ==
    Analyzed =>
        \A n \in Range(graph.nodes) :
            LET found == {k \in 1..Len(analysis.graph_patterns) :
                            TriangleOn(analysis.graph_patterns[k], n.id)}
            IN  /\ Cardinality(found) =
                    (IF Len(SynthesisSources(graph, n.id)) >= 2 THEN 1 ELSE 0)
                /\ \A k \in found :
                    analysis.graph_patterns[k].description[1] =
                        SynthesisSources(graph, n.id)

\* two SYNTHESIZES_WITH edges from a to c: a triangle with the one source a
TriangleWithOneSource ==
    /\ Analyzed
    /\ Len(graph.edges) = 2
    /\ \A e \in Range(graph.edges) :
        e.source = "a" /\ e.target = "c" /\ e.semantic_type = "SYNTHESIZES_WITH"
    /\ \E k \in 1..Len(analysis.graph_patterns) :
        /\ TriangleOn(analysis.graph_patterns[k], "c")
        /\ analysis.graph_patterns[k].description[1] = <<"a", "a">>

\* RESONATES_WITH edges from a to c and from b to c: two distinct sources and
\* no triangle
ResonatingSourcesNoTriangle ==
    /\ Analyzed
    /\ Len(graph.edges) = 2
    /\ \A e \in Range(graph.edges) :
        e.target = "c" /\ e.semantic_type = "RESONATES_WITH"
    /\ DistinctSynthesisSources(graph, "c") = {"a", "b"}
    /\ analysis.synthesis_edges = graph.edges
    /\ PatternsOfType(analysis, "synthesis_triangle") = <<>>


\* the edges i and j make a path A -> B -> C
IsPath(g, i, j) == g.edges[i].target = g.edges[j].source

\* an edge C -> A of the type of the edge B -> C closes the path
IsClosed(g, i, j) ==
    \E k \in 1..Len(g.edges) :
        /\ g.edges[k].source = g.edges[j].target
        /\ g.edges[k].target = g.edges[i].source
        /\ g.edges[k].semantic_type = g.edges[j].semantic_type

\* the pairs of edges a chain is to be recorded for
OpenPaths(g) ==
    {p \in (1..Len(g.edges)) \X (1..Len(g.edges)) :
        /\ IsPath(g, p[1], p[2])
        /\ g.edges[p[1]].source # g.edges[p[2]].target
        /\ ~IsClosed(g, p[1], p[2])}

\* A, the type of A -> B, B, the type of B -> C, C
ChainLabels(g, p) ==
    <<g.edges[p[1]].source, g.edges[p[1]].semantic_type, g.edges[p[1]].target,
      g.edges[p[2]].semantic_type, g.edges[p[2]].target>>

\* C25: a chain (A, B, C) with the types of its two edges is recorded for a
\* pair of edges A -> B and B -> C exactly when A differs from C and no edge
\* C -> A of the same type, the type of B -> C, closes the path: once for every
\* such pair, and for nothing else.
C25_ChainsExact ==
    Analyzed =>
        LET chains == PatternsOfType(analysis, "chain")
            open == OpenPaths(graph)
        IN  /\ Len(chains) = Cardinality(open)
            /\ \A p \in open :
                Cardinality({k \in 1..Len(chains) :
                                chains[k].description = ChainLabels(graph, p)})
                    = Cardinality({q \in open :
                                ChainLabels(graph, q) = ChainLabels(graph, p)})

\* a -> b and b -> c SYNTHESIZES_WITH, c -> a RESONATES_WITH: the path c, a, b
\* is closed by b -> c, the paths a, b, c and b, c, a are recorded
C25_Witness ==
    /\ Analyzed
    /\ Len(graph.edges) = 3
    /\ \E i, j, k \in 1..3 :
        /\ graph.edges[i] = EdgeData(EdgeIds[i], "a", "b", "SYNTHESIZES_WITH")
        /\ graph.edges[j] = EdgeData(EdgeIds[j], "b", "c", "SYNTHESIZES_WITH")
        /\ graph.edges[k] = EdgeData(EdgeIds[k], "c", "a", "RESONATES_WITH")
    /\ {m.description : m \in Range(PatternsOfType(analysis, "chain"))}
        = {<<"a", "SYNTHESIZES_WITH", "b", "SYNTHESIZES_WITH", "c">>,
           <<"b", "SYNTHESIZES_WITH", "c", "RESONATES_WITH", "a">>}

\* a chain A, B, C is recorded although an edge C -> A of the type of A -> B,
\* which is not the type of B -> C, closes the path
ChainClosedByFirstType ==
    /\ Analyzed
    /\ \E m \in Range(PatternsOfType(analysis, "chain")) :
        /\ m.description[2] # m.description[4]
        /\ \E e \in Range(graph.edges) :
            /\ e.source = m.description[5]
            /\ e.target = m.description[1]
            /\ e.semantic_type = m.description[2]


----------------------------------------------------------------------------
(* The context lookups of one execution *)

\* the identifiers the planner may name
LookupIds == {"k:b", "k:d"}

\* C26: within one execution get_node_context is issued at most once for an
\* identifier: the later steps use the stored context, and a fetch that
\* failed or found nothing is not issued again.
C26_ContextFetchedOnce ==
    \A id \in LookupIds : CallCount("get_node_context", id) <= 1

\* a context that is stored is not fetched again, and without a vector store
\* no identifier is fetched twice
StoredContextNotRefetched ==
    /\ [][\A id \in LookupIds :
            (/\ Len(calls') > Len(calls)
             /\ \E i \in (Len(calls) + 1)..Len(calls') :
                    calls'[i][1] = "get_node_context" /\ calls'[i][2] = id)
                => ~DictHas(ki_context.kg_node_contexts, id)]_vars
    /\ [](~vector_present => C26_ContextFetchedOnce)

\* the fetch of k:b in the first step stored nothing and the similarity step
\* fetched k:b again
AbsentContextRefetched ==
    /\ pc = "done"
    /\ vector_present
    /\ PlannedCount(query_plan.kg_context_nodes, "k:b") = 1
    /\ CallCount("get_node_context", "k:b") = 2


----------------------------------------------------------------------------
(* The deep trace of the lineage *)

\* the identifiers listed in the report outside the direct parents, one for
\* each item
ListedIds(report) ==
    LET items == report.key_influencers \o report.schools_and_epochs
                    \o report.foundational_elements.underlying_axioms
                    \o report.foundational_elements.core_metaphors
    IN  [k \in 1..Len(items) |-> items[k].id]

\* the trace had seeds and has returned its report
DeepTraced == pc = "lineage_done" /\ lineage.deep_lineage_seed_ids # {}

\* C27: in the report of the deep trace no identifier is listed twice across
\* key influencers, schools and epochs and foundational elements, no seed is
\* listed, and every entity the knowledge graph returned that is no seed is
\* listed once, in the bucket of its node type, with the path that reached it.
C27_DeepTraceListsEntities ==
    DeepTraced =>
        LET listed == ListedIds(lineage.report)
            influencers == [k \in 1..Len(lineage.report.key_influencers) |->
                               lineage.report.key_influencers[k].id]
        IN  /\ \A i \in 1..Len(listed), j \in 1..Len(listed) :
                i # j => listed[i] # listed[j]
            /\ \A i \in 1..Len(listed) : listed[i] \notin lineage.deep_lineage_seed_ids
            /\ \A n \in Range(lineage.thinker_results_raw) :
                (n.ki_id \notin lineage.deep_lineage_seed_ids /\ n.type = "THINKER") =>
                    Cardinality({k \in 1..Len(influencers) : influencers[k] = n.ki_id}) = 1

\* the report of the deep trace lists nothing outside the direct parents
DeepTraceListsNothing ==
    DeepTraced => ListedIds(lineage.report) = <<>>

\* find_related_nodes returned the thinker k:t, which is no seed, and the
\* report has no key influencer
ReturnedThinkerNotListed ==
    /\ DeepTraced
    /\ \E n \in Range(lineage.thinker_results_raw) :
        n.ki_id = "k:t" /\ n.ki_id \notin lineage.deep_lineage_seed_ids
    /\ lineage.report.key_influencers = <<>>


----------------------------------------------------------------------------
(* C29: the header convention of _parse_llm_output *)

FollowsHeaderConvention(text) ==
    /\ Len(text) > 1
    /\ IsNameLine(text[1])
    /\ IsDescriptionLine(text[2])

\* the text after the header, without the blank line that may separate them
BodyOf(text) == StripLines(SubSeq(text, 3, Len(text)))

\* C29: when the text follows the header convention ("Name: X", then
\* "Description: Y", then an optional blank line, then the body), the parsed
\* result has name X, description Y, and as body the text that follows the
\* header, whatever X, Y and the body are, a body shorter than Y included.
C29_HeaderTextParsed ==
    (pc = "done" /\ FollowsHeaderConvention(synthesis_text)) =>
        LET parsed_output == ParseLLMOutput(synthesis_text)
        IN  /\ parsed_output.name = NameOf(synthesis_text[1])
            /\ parsed_output.description = DescriptionOf(synthesis_text[2])
            /\ parsed_output.content = BodyOf(synthesis_text)
            /\ result.output.name = NameOf(synthesis_text[1])
            /\ result.output.description = DescriptionOf(synthesis_text[2])

\* What the parser does: the name is always X; the body is the text after the
\* header unless that text is empty, and then it is Y; the description is Y
\* unless Y is longer than the body, and then it is the body and "...".
HeaderTextParsedUnlessShortBody ==
    (pc = "done" /\ FollowsHeaderConvention(synthesis_text)) =>
        LET parsed_output == ParseLLMOutput(synthesis_text)
            Y == DescriptionOf(synthesis_text[2])
            body == BodyOf(synthesis_text)
        IN  /\ parsed_output.name = NameOf(synthesis_text[1])
            /\ result.output.name = parsed_output.name
            /\ result.output.description = parsed_output.description
            /\ parsed_output.content = IF body = <<>> THEN Y ELSE body
            /\ parsed_output.description =
                   IF body # <<>> /\ TextLength(Y) > TextLength(body)
                   THEN Ellipsis(body) ELSE Y

\* a body shorter than the description: the description returned is the body
\* followed by "...", not Y
ShortBodyReplacesDescription ==
    /\ pc = "done"
    /\ synthesis_text = <<"Name: X", "description: A long description.", "", "Body">>
    /\ result.output.name = "X"
    /\ result.output.description = <<"Body", "...">>

\* no body at all: the body returned is the description
EmptyBodyBecomesDescription ==
    /\ pc = "done"
    /\ synthesis_text = <<"Name: X", "Description: Y">>
    /\ ParseLLMOutput(synthesis_text).content = <<"Y">>
    /\ result.output.description = <<"Y">>

----------------------------------------------------------------------------
(* C30: _identify_communities terminates *)

\* the merges made so far: every merge takes one community away
MergesMade == Len(graph.nodes) - Len(communities)

\* a step of the while loop
IsCommunityPass == pc = "communities" /\ passes' = passes + 1

\* C30: community detection terminates for every finite graph, graphs with
\* cycles, self-loops, parallel edges and edges whose endpoints are no nodes of
\* the graph included: each pass either merges two communities and leaves one
\* community fewer, or merges nothing and ends the loop, and at most N-1
\* merges are made for N nodes.
C30_CommunityDetectionTerminates ==
    /\ [][IsCommunityPass =>
            \/ /\ merged'
               /\ Len(communities') = Len(communities) - 1
            \/ /\ ~merged'
               /\ communities' = communities]_vars
    /\ [][(pc = "communities" /\ ~merged) => pc' = "plan"]_vars
    /\ [](pc \in {"communities", "plan"} =>
            /\ Len(communities) >= Min(1, Len(graph.nodes))
            /\ MergesMade <= Len(graph.nodes) - Min(1, Len(graph.nodes))
            /\ passes <= MergesMade + 1)
    /\ <>(pc = "plan")

\* three nodes on a cycle a -> b -> c -> a: two merges, the most three nodes
\* allow, and the loop has ended
C30_Witness ==
    /\ pc = "plan"
    /\ Len(graph.nodes) = 3
    /\ Len(graph.edges) = 3
    /\ \A k \in 1..3 :
            graph.edges[k].target = graph.edges[(k % 3) + 1].source
    /\ \A k \in 1..3 : graph.edges[k].source # graph.edges[k].target
    /\ passes = 2
    /\ Len(communities) = 1

====
